---- MODULE Spec2Model ----
(***************************************************************************)
(* Cookie jar and header composition of the Cronet HTTP client             *)
(* (src/cronet_client.py).  Python strings are modelled as sequences of    *)
(* one-character strings, Python dicts as insertion-ordered sequences of   *)
(* <<key, value>> pairs.                                                   *)
(***************************************************************************)
EXTENDS Integers, Sequences, FiniteSets, TLC

VARIABLES
    session_id,   \* self.session_id: "None" or the id the remote returned
    cookies,      \* self._cookies: ordered dict domain -> ordered dict name -> value
    pc,           \* "idle", or "inflight" while request() waits in the transport call
    call,         \* arguments of the running / last call (url, domain, headers, cookies)
    sent,         \* payload["headers"] of the running / last request
    resp,         \* resp_headers of the last answered request
    err,          \* "none", or the exception the last call raised
    nreq,         \* number of requests issued so far
    oneoff,       \* one-off cookies <<domain, name, value>> stored and not written since
    before,       \* the store as it was when the running request was called; once it
                  \* is answered, as it was when the response arrived
    fn,           \* arguments and result of a direct call of a function or property
    prev,         \* domain and resp_headers of the request answered just before the running one
    heap,         \* the dict objects of the client and of its callers, by object id
    tasks         \* the overlapping request() calls of one client: position and locals

vars == <<session_id, cookies, pc, call, sent, resp, err, nreq, oneoff, before, fn, prev,
          heap, tasks>>

-----------------------------------------------------------------------------
(* Python str primitives *)

UpperAlpha == <<"A","B","C","D","E","F","G","H","I","J","K","L","M",
                "N","O","P","Q","R","S","T","U","V","W","X","Y","Z">>
LowerAlpha == <<"a","b","c","d","e","f","g","h","i","j","k","l","m",
                "n","o","p","q","r","s","t","u","v","w","x","y","z">>

\* the lower-case letter of every upper-case letter
ToLower == [c \in {UpperAlpha[i] : i \in DOMAIN UpperAlpha} |->
              LowerAlpha[CHOOSE i \in DOMAIN UpperAlpha : UpperAlpha[i] = c]]

\* str.lower() on one character
LowerChar(c) == IF c \in DOMAIN ToLower THEN ToLower[c] ELSE c

\* str.lower()
Lower(s) == [i \in 1..Len(s) |-> LowerChar(s[i])]

\* the characters str.strip() removes
Whitespace == {" ", "\t"}

RECURSIVE LStrip(_)
LStrip(s) ==
    IF s # <<>> /\ Head(s) \in Whitespace THEN LStrip(Tail(s)) ELSE s

RECURSIVE RStrip(_)
RStrip(s) ==
    IF s # <<>> /\ s[Len(s)] \in Whitespace
    THEN RStrip(SubSeq(s, 1, Len(s) - 1))
    ELSE s

\* str.strip()
Strip(s) == RStrip(LStrip(s))

\* `ch in s` for a one-character ch
Contains(s, ch) == \E i \in 1..Len(s) : s[i] = ch

\* index of the first occurrence of ch in s, 0 when absent (str.find + 1)
RECURSIVE FindFrom(_, _, _)
FindFrom(s, ch, i) ==
    IF i > Len(s) THEN 0
    ELSE IF s[i] = ch THEN i
    ELSE FindFrom(s, ch, i + 1)

Find(s, ch) == FindFrom(s, ch, 1)

\* s.split(ch): always at least one part
RECURSIVE Split(_, _)
Split(s, ch) ==
    LET i == Find(s, ch) IN
    IF i = 0 THEN <<s>>
    ELSE <<SubSeq(s, 1, i - 1)>> \o Split(SubSeq(s, i + 1, Len(s)), ch)

\* s.split(ch, 1): one part when ch is absent, else the text before and after
\* the first ch
Split1(s, ch) ==
    LET i == Find(s, ch) IN
    IF i = 0 THEN <<s>>
    ELSE <<SubSeq(s, 1, i - 1), SubSeq(s, i + 1, Len(s))>>

\* s.startswith(p)
StartsWith(s, p) == Len(p) <= Len(s) /\ SubSeq(s, 1, Len(p)) = p

\* s.endswith(p)
EndsWith(s, p) ==
    Len(p) <= Len(s) /\ SubSeq(s, Len(s) - Len(p) + 1, Len(s)) = p

\* sep.join(parts)
RECURSIVE Join(_, _)
Join(parts, sep) ==
    IF parts = <<>> THEN <<>>
    ELSE IF Len(parts) = 1 THEN parts[1]
    ELSE parts[1] \o sep \o Join(Tail(parts), sep)

-----------------------------------------------------------------------------
(* Python dict primitives: a dict is a sequence of <<key, value>> in        *)
(* insertion order, keys distinct.                                         *)

\* k in d
DictHas(d, k) == \E i \in 1..Len(d) : d[i][1] = k

\* d[k]
DictGet(d, k) == d[CHOOSE i \in 1..Len(d) : d[i][1] = k][2]

\* d[k] = v: an existing key keeps its position, a new key goes last
DictSet(d, k, v) ==
    IF DictHas(d, k)
    THEN [i \in 1..Len(d) |-> IF d[i][1] = k THEN <<k, v>> ELSE d[i]]
    ELSE Append(d, <<k, v>>)

\* d.update(other)
RECURSIVE DictUpdate(_, _)
DictUpdate(d, other) ==
    IF other = <<>> THEN d
    ELSE DictUpdate(DictSet(d, other[1][1], other[1][2]), Tail(other))

-----------------------------------------------------------------------------
(* String literals of the source *)

STR_cookie == <<"c","o","o","k","i","e">>
STR_priority == <<"p","r","i","o","r","i","t","y">>
STR_set_cookie == <<"s","e","t","-","c","o","o","k","i","e">>
STR_domain_eq == <<"d","o","m","a","i","n","=">>
STR_content_type == <<"c","o","n","t","e","n","t","-","t","y","p","e">>
STR_application_json == <<"a","p","p","l","i","c","a","t","i","o","n","/","j","s","o","n">>
STR_form_urlencoded == <<"a","p","p","l","i","c","a","t","i","o","n","/","x","-","w","w","w","-","f","o","r","m","-","u","r","l","e","n","c","o","d","e","d">>
STR_cookie_sep == <<";"," ">>

-----------------------------------------------------------------------------
(* _extract_domain: urlparse(url).netloc.lower() *)

SchemeChars ==
    {UpperAlpha[i] : i \in DOMAIN UpperAlpha} \cup
    {LowerAlpha[i] : i \in DOMAIN LowerAlpha} \cup
    {"0","1","2","3","4","5","6","7","8","9","+","-","."}

\* urlsplit: the url with a leading "scheme:" removed
AfterScheme(url) ==
    LET i == Find(url, ":") IN
    IF i > 1 /\ LowerChar(url[1]) \in {LowerAlpha[j] : j \in DOMAIN LowerAlpha}
             /\ \A j \in 1..(i - 1) : url[j] \in SchemeChars
    THEN SubSeq(url, i + 1, Len(url))
    ELSE url

\* urlsplit: the netloc runs from after "//" to the first of "/", "?", "#"
Netloc(url) ==
    LET rest == AfterScheme(url) IN
    IF Len(rest) >= 2 /\ rest[1] = "/" /\ rest[2] = "/"
    THEN LET body  == SubSeq(rest, 3, Len(rest))
             stops == {j \in 1..Len(body) : body[j] \in {"/", "?", "#"}}
             delim == IF stops = {} THEN Len(body) + 1
                      ELSE CHOOSE j \in stops : \A k \in stops : j <= k
         IN SubSeq(body, 1, delim - 1)
    ELSE <<>>

ExtractDomain(url) == Lower(Netloc(url))

-----------------------------------------------------------------------------
(* _parse_set_cookie *)

\* a variant that keeps the leading dot of the declared domain
RECURSIVE DomainAttr_KeepDot(_)
DomainAttr_KeepDot(parts) ==
    IF parts = <<>> THEN <<>>
    ELSE LET part == Strip(Head(parts)) IN
         IF StartsWith(Lower(part), STR_domain_eq)
         THEN Lower(Strip(Split1(part, "=")[2]))
         ELSE DomainAttr_KeepDot(Tail(parts))

\* the loop over parts[1:] that looks for the Domain attribute
RECURSIVE DomainAttr(_)
DomainAttr(parts) ==
    IF parts = <<>> THEN <<>>
    ELSE LET part == Strip(Head(parts)) IN
         IF StartsWith(Lower(part), STR_domain_eq)
         THEN LET domain == Lower(Strip(Split1(part, "=")[2])) IN
              IF StartsWith(domain, <<".">>) THEN Tail(domain) ELSE domain
         ELSE DomainAttr(Tail(parts))

\* a variant that cuts the whole value, not its first segment, at the first "="
ParseOne_SplitWhole(value) ==
    IF Contains(value, "=")
    THEN LET parts == Split(value, ";")
             nv    == Split1(value, "=")
         IN << <<Strip(nv[1]), Strip(nv[2]), DomainAttr(Tail(parts))>> >>
    ELSE <<>>

\* a variant that splits the first segment at every "="
ParseOne_SplitAll(value) ==
    IF Contains(value, "=")
    THEN LET parts       == Split(value, ";")
             cookie_part == Strip(parts[1])
         IN IF Contains(cookie_part, "=")
            THEN LET nv == Split(cookie_part, "=") IN
                 << <<Strip(nv[1]), Strip(nv[2]), DomainAttr(Tail(parts))>> >>
            ELSE <<>>
    ELSE <<>>

\* the body of the loop for one Set-Cookie value: the tuples it appends
ParseOne(value) ==
    IF Contains(value, "=")
    THEN LET parts       == Split(value, ";")
             cookie_part == Strip(parts[1])
         IN IF Contains(cookie_part, "=")
            THEN LET nv == Split1(cookie_part, "=") IN
                 << <<Strip(nv[1]), Strip(nv[2]), DomainAttr(Tail(parts))>> >>
            ELSE <<>>
    ELSE <<>>

RECURSIVE ParseSetCookie(_)
ParseSetCookie(set_cookie_values) ==
    IF set_cookie_values = <<>> THEN <<>>
    ELSE ParseOne(Head(set_cookie_values)) \o ParseSetCookie(Tail(set_cookie_values))

-----------------------------------------------------------------------------
(* _domain_matches *)

\* a variant that forgets the separating dot of the suffix test
DomainMatches_NoDot(cookie_domain, request_domain) ==
    IF cookie_domain = <<>> THEN FALSE
    ELSE LET rd == Lower(request_domain)
             cd == Lower(cookie_domain)
         IN IF rd = cd THEN TRUE
            ELSE IF EndsWith(rd, cd) THEN TRUE
            ELSE FALSE

DomainMatches(cookie_domain, request_domain) ==
    IF cookie_domain = <<>> THEN FALSE
    ELSE LET rd == Lower(request_domain)
             cd == Lower(cookie_domain)
         IN IF rd = cd THEN TRUE
            ELSE IF EndsWith(rd, <<".">> \o cd) THEN TRUE
            ELSE FALSE

-----------------------------------------------------------------------------
(* _prepare_headers *)

\* a variant that leaves the priority headers in the normal bucket as well
RECURSIVE NormalHeaders_KeepPriority(_)
NormalHeaders_KeepPriority(headers_list) ==
    IF headers_list = <<>> THEN <<>>
    ELSE LET k_lower == Lower(Head(headers_list)[1]) IN
         IF k_lower = STR_cookie THEN NormalHeaders_KeepPriority(Tail(headers_list))
         ELSE <<Head(headers_list)>> \o NormalHeaders_KeepPriority(Tail(headers_list))

\* a variant that compares the name with "cookie" without lower-casing it
RECURSIVE NormalHeaders_CaseSensitive(_)
NormalHeaders_CaseSensitive(headers_list) ==
    IF headers_list = <<>> THEN <<>>
    ELSE LET k       == Head(headers_list)[1]
             k_lower == Lower(k)
         IN IF k = STR_cookie THEN NormalHeaders_CaseSensitive(Tail(headers_list))
            ELSE IF k_lower = STR_priority
                 THEN NormalHeaders_CaseSensitive(Tail(headers_list))
            ELSE <<Head(headers_list)>> \o NormalHeaders_CaseSensitive(Tail(headers_list))

\* step 1, the normal bucket: names other than cookie and priority
RECURSIVE NormalHeaders(_)
NormalHeaders(headers_list) ==
    IF headers_list = <<>> THEN <<>>
    ELSE LET k_lower == Lower(Head(headers_list)[1]) IN
         IF k_lower = STR_cookie THEN NormalHeaders(Tail(headers_list))
         ELSE IF k_lower = STR_priority THEN NormalHeaders(Tail(headers_list))
         ELSE <<Head(headers_list)>> \o NormalHeaders(Tail(headers_list))

\* step 1, the priority bucket
RECURSIVE PriorityHeaders(_)
PriorityHeaders(headers_list) ==
    IF headers_list = <<>> THEN <<>>
    ELSE LET k_lower == Lower(Head(headers_list)[1]) IN
         IF k_lower = STR_cookie THEN PriorityHeaders(Tail(headers_list))
         ELSE IF k_lower = STR_priority
              THEN <<Head(headers_list)>> \o PriorityHeaders(Tail(headers_list))
         ELSE PriorityHeaders(Tail(headers_list))

\* a variant that merges every stored domain, matching or not
RECURSIVE MergeStored_NoFilter(_, _, _, _)
MergeStored_NoFilter(merged, store, i, domain) ==
    IF i > Len(store) THEN merged
    ELSE MergeStored_NoFilter(DictUpdate(merged, store[i][2]), store, i + 1, domain)

\* step 2, the loop over self._cookies.items(), from entry i on
RECURSIVE MergeStored(_, _, _, _)
MergeStored(merged, store, i, domain) ==
    IF i > Len(store) THEN merged
    ELSE LET cookie_domain  == store[i][1]
             domain_cookies == store[i][2]
         IN IF cookie_domain = domain \/ DomainMatches(cookie_domain, domain)
            THEN MergeStored(DictUpdate(merged, domain_cookies), store, i + 1, domain)
            ELSE MergeStored(merged, store, i + 1, domain)

\* a variant that applies the call's cookies first, so stored cookies win
MergedCookies_StoreWins(store, cks, domain) ==
    MergeStored(IF cks # <<>> THEN cks ELSE <<>>, store, 1, domain)

\* step 2: stored cookies of the matching domains, then the call's cookies
MergedCookies(store, cks, domain) ==
    LET merged == MergeStored(<<>>, store, 1, domain) IN
    IF cks # <<>> THEN DictUpdate(merged, cks) ELSE merged

\* "; ".join([f"{k}={v}" for k, v in merged_cookies.items()])
CookieStr(merged_cookies) ==
    Join([i \in 1..Len(merged_cookies) |->
            merged_cookies[i][1] \o <<"=">> \o merged_cookies[i][2]],
         STR_cookie_sep)

\* a variant that appends the cookie header after the priority headers
PrepareHeaders_PriorityFirst(store, headers, cks, domain) ==
    LET merged_cookies == MergedCookies(store, cks, domain)
        tail == IF merged_cookies # <<>>
                THEN << <<STR_cookie, CookieStr(merged_cookies)>> >>
                ELSE <<>>
    IN NormalHeaders(headers) \o PriorityHeaders(headers) \o tail

\* step 3: normal -> cookie -> priority
PrepareHeaders(store, headers, cks, domain) ==
    LET merged_cookies == MergedCookies(store, cks, domain)
        with_cookie ==
            IF merged_cookies # <<>>
            THEN Append(NormalHeaders(headers), <<STR_cookie, CookieStr(merged_cookies)>>)
            ELSE NormalHeaders(headers)
    IN with_cookie \o PriorityHeaders(headers)

-----------------------------------------------------------------------------
(* _update_cookies_from_response *)

\* a variant without the fallback to the request domain
StoreDomain_NoFallback(cookie_domain, request_domain) == cookie_domain

\* the storage domain of a parsed cookie
StoreDomain(cookie_domain, request_domain) ==
    IF cookie_domain # <<>> THEN cookie_domain ELSE request_domain

\* a variant without the membership test: the per-domain dict is always created
RECURSIVE StoreParsed_Fresh(_, _, _)
StoreParsed_Fresh(store, parsed_cookies, request_domain) ==
    IF parsed_cookies = <<>> THEN store
    ELSE LET c            == Head(parsed_cookies)
             store_domain == StoreDomain(c[3], request_domain)
             created      == DictSet(store, store_domain, <<>>)
             written      == DictSet(created, store_domain,
                                     DictSet(DictGet(created, store_domain), c[1], c[2]))
         IN StoreParsed_Fresh(written, Tail(parsed_cookies), request_domain)

\* the inner loop: the parsed cookies written into the store
RECURSIVE StoreParsed(_, _, _)
StoreParsed(store, parsed_cookies, request_domain) ==
    IF parsed_cookies = <<>> THEN store
    ELSE LET c            == Head(parsed_cookies)
             store_domain == StoreDomain(c[3], request_domain)
             created      == IF DictHas(store, store_domain) THEN store
                             ELSE DictSet(store, store_domain, <<>>)
             written      == DictSet(created, store_domain,
                                     DictSet(DictGet(created, store_domain), c[1], c[2]))
         IN StoreParsed(written, Tail(parsed_cookies), request_domain)

\* the outer loop over headers.items()
RECURSIVE UpdateCookiesFromResponse(_, _, _)
UpdateCookiesFromResponse(store, headers, request_domain) ==
    IF headers = <<>> THEN store
    ELSE LET name   == Head(headers)[1]
             values == Head(headers)[2]
         IN IF Lower(name) = STR_set_cookie
            THEN UpdateCookiesFromResponse(
                     StoreParsed(store, ParseSetCookie(values), request_domain),
                     Tail(headers), request_domain)
            ELSE UpdateCookiesFromResponse(store, Tail(headers), request_domain)

-----------------------------------------------------------------------------
(* Inputs: the urls, cookies, headers and responses the calls are made with *)

D_parent == <<"e","x",".","c","o","m">>
D_shop == <<"s","h","o","p",".","e","x",".","c","o","m">>
D_api == <<"a","p","i",".","e","x",".","c","o","m">>
D_nodot == <<"x","e","x",".","c","o","m">>
URL_port == <<"h","t","t","p","s",":","/","/","s","h","o","p",".","e","x",".","c","o","m",":","8","4","4","3","/","v","e","r","i","f","y",".","h","t","m","l">>
URL_shop == <<"h","t","t","p","s",":","/","/","S","h","o","p",".","e","x",".","c","o","m","/","x">>
URL_api == <<"h","t","t","p","s",":","/","/","a","p","i",".","e","x",".","c","o","m","/","y">>
URL_parent == <<"h","t","t","p","s",":","/","/","e","x",".","c","o","m">>
URL_nodot == <<"h","t","t","p",":","/","/","x","e","x",".","c","o","m","/","z","?","q","=","1">>
N_sid == <<"s","i","d">>
N_tok == <<"t","o","k">>
N_init == <<"i","n","i","t">>
V_hello == <<"h","e","l","l","o">>
V_abc123 == <<"a","b","c","1","2","3">>
V_zzz == <<"z","z","z">>
V_1 == <<"1">>
SC_sid == <<"s","i","d","=","a","b","c","1","2","3",";"," ","D","o","m","a","i","n","=",".","e","x",".","c","o","m",";"," ","P","a","t","h","=","/",";"," ","H","t","t","p","O","n","l","y">>
SC_tok == <<"t","o","k","=","z","z","z",";"," ","P","a","t","h","=","/">>
SC_garbage == <<"g","a","r","b","a","g","e","-","n","o","-","e","q","u","a","l","s">>
SC_late_eq == <<"g","a","r","b","a","g","e",";"," ","D","o","m","a","i","n","=","e","x",".","c","o","m">>
SC_two_eq == <<" ","k"," ","="," ","v","1","=","v","2"," ",";","S","e","c","u","r","e">>
SC_upper == <<"s","i","d","=","u","p",";"," ","D","O","M","A","I","N","="," ",".","E","X",".","c","o","m"," ">>
SC_child == <<"s","i","d","=","d","e","e","p",";"," ","d","o","m","a","i","n","=","s","h","o","p",".","e","x",".","c","o","m",";"," ","d","o","m","a","i","n","=","e","x",".","c","o","m">>
SC_empty_dom == <<"i","n","i","t","=","s","r","v",";"," ","D","o","m","a","i","n","=">>
SC_dot_dom == <<"t","o","k","=","d","o","t",";"," ","P","a","t","h","=","/",";"," ","D","o","m","a","i","n","="," ",".">>
SC_two_dots == <<"k","=","v",";"," ","D","o","m","a","i","n","=",".",".","e","x",".","c","o","m">>
SC_spaced == <<"s","i","d","=","s","p",";"," ","D","o","m","a","i","n"," ","=","e","x",".","c","o","m">>
H_Set_Cookie == <<"S","e","t","-","C","o","o","k","i","e">>
H_set_cookie == <<"s","e","t","-","c","o","o","k","i","e">>
H_Server == <<"S","e","r","v","e","r">>
V_nginx == <<"n","g","i","n","x">>
H_Accept == <<"A","c","c","e","p","t">>
V_any == <<"*","/","*">>
H_Cookie == <<"C","o","o","k","i","e">>
H_COOKIE == <<"C","O","O","K","I","E">>
V_forged == <<"s","i","d","=","f","o","r","g","e","d">>
V_forged2 == <<"x","=","y">>
H_Priority == <<"P","r","i","o","r","i","t","y">>
H_priority == <<"p","r","i","o","r","i","t","y">>
V_u0 == <<"u","=","0">>
V_u1 == <<"u","=","1",","," ","i">>
H_Content_Type == <<"C","o","n","t","e","n","t","-","T","y","p","e">>
V_text == <<"t","e","x","t","/","p","l","a","i","n">>

\* the request domains of the urls
RequestDomains == {D_parent, D_shop, D_api, D_nodot}

Urls == {URL_shop, URL_api, URL_parent, URL_nodot}

\* the cookies= argument: None, or a dict
OneOffInputs == { <<>>, << <<N_init, V_hello>> >>, << <<N_sid, V_1>> >> }

HP_Accept   == <<H_Accept, V_any>>
HP_Type     == <<H_Content_Type, V_text>>
HP_Cookie   == <<H_Cookie, V_forged>>
HP_COOKIE   == <<H_COOKIE, V_forged2>>
HP_Priority == <<H_Priority, V_u0>>
HP_priority == <<H_priority, V_u1>>

HeaderPairs == {HP_Accept, HP_Type, HP_Cookie, HP_COOKIE, HP_Priority, HP_priority}

\* the arguments of the requests of a session
RequestInputs ==
    [url : {URL_shop}, cookies : OneOffInputs, headers : {<<>>}, body : {"none"}]
    \cup [url : {URL_api, URL_parent, URL_nodot, URL_port}, cookies : {<<>>}, headers : {<<>>},
          body : {"none"}]
    \cup { [url |-> URL_shop, cookies |-> <<>>,
            headers |-> <<HP_Accept, HP_Priority, HP_Cookie>>, body |-> "json"],
           [url |-> URL_parent, cookies |-> << <<N_sid, V_1>> >>,
            headers |-> <<HP_COOKIE, HP_priority, HP_Type, HP_Priority>>, body |-> "data"],
           [url |-> URL_api, cookies |-> << <<N_init, V_hello>> >>,
            headers |-> <<HP_Priority>>, body |-> "data"] }

\* resp_headers: header name -> list of values, as the remote returns them
ResponseInputs ==
    { << <<H_Set_Cookie, <<SC_sid>>>> >>,
      << <<H_set_cookie, <<SC_tok>>>> >>,
      << <<H_Server, <<V_nginx>>>>, <<H_Set_Cookie, <<SC_garbage, SC_late_eq>>>> >>,
      << <<H_Set_Cookie, <<SC_garbage, SC_two_eq>>>> >>,
      << <<H_Set_Cookie, <<SC_upper>>>>, <<H_set_cookie, <<SC_child>>>> >>,
      << <<H_Set_Cookie, <<SC_empty_dom, SC_dot_dom, SC_spaced, SC_two_dots>>>> >> }

-----------------------------------------------------------------------------
(* The client *)

MaxRequests == 2

\* remote: the operation the call issued to the remote service, answer: what
\* came back ("raised": the transport raised, "undecodable": the reply was no
\* JSON, "rejected": success false)
NoCall == [op |-> "none", domain |-> <<>>, headers |-> <<>>, cookies |-> <<>>,
           remote |-> "none", answer |-> "none"]
NoError == [type |-> "none", why |-> "none"]
NoFn == [op |-> "none"]
NoPrev == [domain |-> <<>>, resp |-> <<>>]

Init ==
    /\ session_id = "None"
    /\ cookies = <<>>
    /\ pc = "idle"
    /\ call = NoCall
    /\ sent = <<>>
    /\ resp = <<>>
    /\ err = NoError
    /\ nreq = 0
    /\ oneoff = {}
    /\ before = <<>>
    /\ fn = NoFn
    /\ prev = NoPrev
    /\ heap = <<>>
    /\ tasks = <<>>

\* what the remote can do with a call
RemoteAnswers == {"success", "rejected", "raised", "undecodable"}

\* a variant that binds the session id whatever the remote answers
CreateSession_Always ==
    /\ pc = "idle"
    /\ \E answer \in RemoteAnswers :
        /\ session_id' = "sid"
        /\ err' = CASE answer = "success"     -> NoError
                    [] answer = "rejected"    -> [type |-> "RequestError", why |-> "create"]
                    [] answer = "raised"      -> [type |-> "ConnectionError", why |-> "create"]
                    [] answer = "undecodable" -> [type |-> "ValueError", why |-> "create"]
        /\ call' = [NoCall EXCEPT !.op = "_create_session", !.remote = "create-session",
                                  !.answer = answer]
    /\ sent' = <<>>
    /\ resp' = <<>>
    /\ before' = <<>>
    /\ prev' = NoPrev
    /\ UNCHANGED <<cookies, pc, nreq, oneoff, fn>>
    /\ UNCHANGED <<heap, tasks>>

\* _create_session: the remote answers success or success:false, or the post
\* raises, or resp.json() raises; only success:false is turned into
\* RequestError, the exceptions of post and json() leave as they are
CreateSession ==
    /\ pc = "idle"
    /\ \E answer \in RemoteAnswers :
        /\ session_id' = IF answer = "success" THEN "sid" ELSE session_id
        /\ err' = CASE answer = "success"     -> NoError
                    [] answer = "rejected"    -> [type |-> "RequestError", why |-> "create"]
                    [] answer = "raised"      -> [type |-> "ConnectionError", why |-> "create"]
                    [] answer = "undecodable" -> [type |-> "ValueError", why |-> "create"]
        /\ call' = [NoCall EXCEPT !.op = "_create_session", !.remote = "create-session",
                                  !.answer = answer]
    /\ sent' = <<>>
    /\ resp' = <<>>
    /\ before' = <<>>
    /\ prev' = NoPrev
    /\ UNCHANGED <<cookies, pc, nreq, oneoff, fn>>
    /\ UNCHANGED <<heap, tasks>>

\* a variant that lets the failure of delete-session out
Close_Propagating ==
    /\ pc = "idle"
    /\ \/ /\ session_id # "None"
          /\ \E answer \in {"success", "raised"} :
              /\ call' = [NoCall EXCEPT !.op = "close", !.remote = "delete-session",
                                        !.answer = answer]
              /\ err' = IF answer = "raised"
                        THEN [type |-> "ConnectionError", why |-> "close"] ELSE NoError
              /\ session_id' = IF answer = "raised" THEN session_id ELSE "None"
       \/ /\ session_id = "None"
          /\ call' = [NoCall EXCEPT !.op = "close"]
          /\ err' = NoError
          /\ session_id' = "None"
    /\ sent' = <<>>
    /\ resp' = <<>>
    /\ before' = <<>>
    /\ prev' = NoPrev
    /\ UNCHANGED <<cookies, pc, nreq, oneoff, fn>>
    /\ UNCHANGED <<heap, tasks>>

\* a variant that issues delete-session whether or not a session exists
Close_AlwaysDelete ==
    /\ pc = "idle"
    /\ \E answer \in {"success", "raised"} :
        call' = [NoCall EXCEPT !.op = "close", !.remote = "delete-session",
                              !.answer = answer]
    /\ session_id' = "None"
    /\ err' = NoError
    /\ sent' = <<>>
    /\ resp' = <<>>
    /\ before' = <<>>
    /\ prev' = NoPrev
    /\ UNCHANGED <<cookies, pc, nreq, oneoff, fn>>
    /\ UNCHANGED <<heap, tasks>>

\* a variant that empties the store
Close_Clearing ==
    /\ pc = "idle"
    /\ \/ /\ session_id # "None"
          /\ \E answer \in {"success", "raised"} :
              call' = [NoCall EXCEPT !.op = "close", !.remote = "delete-session",
                                    !.answer = answer]
       \/ /\ session_id = "None"
          /\ call' = [NoCall EXCEPT !.op = "close"]
    /\ session_id' = "None"
    /\ cookies' = <<>>
    /\ err' = NoError
    /\ sent' = <<>>
    /\ resp' = <<>>
    /\ before' = <<>>
    /\ prev' = NoPrev
    /\ UNCHANGED <<pc, nreq, oneoff, fn>>
    /\ UNCHANGED <<heap, tasks>>

\* close: with a session, delete-session is issued and whatever it raises is
\* swallowed, then session_id is reset; without a session nothing is issued
Close ==
    /\ pc = "idle"
    /\ \/ /\ session_id # "None"
          /\ \E answer \in {"success", "raised"} :
              call' = [NoCall EXCEPT !.op = "close", !.remote = "delete-session",
                                    !.answer = answer]
       \/ /\ session_id = "None"
          /\ call' = [NoCall EXCEPT !.op = "close"]
    /\ session_id' = "None"
    /\ err' = NoError
    /\ sent' = <<>>
    /\ resp' = <<>>
    /\ before' = <<>>
    /\ prev' = NoPrev
    /\ UNCHANGED <<cookies, pc, nreq, oneoff, fn>>
    /\ UNCHANGED <<heap, tasks>>

\* a variant that does not keep the call's cookies
StoreOneOff_Skip(store, domain, cks) == store

\* a variant that replaces the domain's cookies by the call's
StoreOneOff_Replace(store, domain, cks) ==
    IF cks # <<>> THEN DictSet(store, domain, cks) ELSE store

\* request: the call's cookies go into the store under the request domain
StoreOneOff(store, domain, cks) ==
    IF cks # <<>>
    THEN LET created == IF DictHas(store, domain) THEN store
                        ELSE DictSet(store, domain, <<>>)
         IN DictSet(created, domain, DictUpdate(DictGet(created, domain), cks))
    ELSE store

\* request, the json= / data= arguments: a content-type is added when absent
WithContentType(headers, body) ==
    LET has_content_type ==
            \E i \in 1..Len(headers) : Lower(headers[i][1]) = STR_content_type
    IN IF body = "json" /\ ~has_content_type
       THEN Append(headers, <<STR_content_type, STR_application_json>>)
       ELSE IF body = "data" /\ ~has_content_type
       THEN Append(headers, <<STR_content_type, STR_form_urlencoded>>)
       ELSE headers

\* a variant that stores the call's cookies before it checks the session
RequestNoSession_StoreFirst ==
    /\ pc = "idle"
    /\ session_id = "None"
    /\ nreq < MaxRequests
    /\ \E in \in RequestInputs :
        /\ call' = [NoCall EXCEPT !.op = "request", !.cookies = in.cookies]
        /\ cookies' = StoreOneOff(cookies, ExtractDomain(in.url), in.cookies)
    /\ err' = [type |-> "RequestError", why |-> "no session"]
    /\ sent' = <<>>
    /\ resp' = <<>>
    /\ before' = cookies
    /\ nreq' = nreq + 1
    /\ prev' = NoPrev
    /\ UNCHANGED <<session_id, pc, oneoff, fn>>
    /\ UNCHANGED <<heap, tasks>>

\* request without a session: RequestError before anything else happens
RequestNoSession ==
    /\ pc = "idle"
    /\ session_id = "None"
    /\ nreq < MaxRequests
    /\ \E in \in RequestInputs :
        call' = [NoCall EXCEPT !.op = "request", !.cookies = in.cookies]
    /\ err' = [type |-> "RequestError", why |-> "no session"]
    /\ sent' = <<>>
    /\ resp' = <<>>
    /\ before' = cookies
    /\ nreq' = nreq + 1
    /\ prev' = NoPrev
    /\ UNCHANGED <<session_id, cookies, pc, oneoff, fn>>
    /\ UNCHANGED <<heap, tasks>>

\* request up to the transport call: store the cookies, compose the headers
RequestSend ==
    /\ pc = "idle"
    /\ session_id # "None"
    /\ nreq < MaxRequests
    /\ \E in \in RequestInputs :
        LET domain  == ExtractDomain(in.url)
            store   == StoreOneOff(cookies, domain, in.cookies)
            headers == WithContentType(in.headers, in.body)
        IN /\ cookies' = store
           /\ sent' = PrepareHeaders(store, headers, in.cookies, domain)
           /\ call' = [op |-> "request", domain |-> domain, headers |-> headers,
                       cookies |-> in.cookies, remote |-> "send-request",
                       answer |-> "none"]
           /\ oneoff' = {t \in oneoff : ~(t[1] = domain /\ DictHas(in.cookies, t[2]))}
                        \cup {<<domain, in.cookies[i][1], in.cookies[i][2]>> :
                                i \in 1..Len(in.cookies)}
    /\ pc' = "inflight"
    /\ err' = NoError
    /\ resp' = <<>>
    /\ before' = cookies
    /\ nreq' = nreq + 1
    /\ prev' = IF call.op = "request" /\ err = NoError
             THEN [domain |-> call.domain, resp |-> resp]
             ELSE NoPrev
    /\ UNCHANGED <<session_id, fn>>
    /\ UNCHANGED <<heap, tasks>>

\* the (storage domain, name) pairs a response writes
RECURSIVE WrittenKeys(_, _)
WrittenKeys(headers, request_domain) ==
    IF headers = <<>> THEN {}
    ELSE LET parsed == IF Lower(Head(headers)[1]) = STR_set_cookie
                       THEN ParseSetCookie(Head(headers)[2]) ELSE <<>>
         IN {<<StoreDomain(parsed[i][3], request_domain), parsed[i][1]>> :
                i \in 1..Len(parsed)}
            \cup WrittenKeys(Tail(headers), request_domain)

\* request after the transport call: the remote answered success
RequestOk ==
    /\ pc = "inflight"
    /\ \E r \in ResponseInputs :
        /\ cookies' = UpdateCookiesFromResponse(cookies, r, call.domain)
        /\ resp' = r
        /\ before' = cookies
        /\ oneoff' = {t \in oneoff : <<t[1], t[2]>> \notin WrittenKeys(r, call.domain)}
    /\ pc' = "idle"
    /\ err' = NoError
    /\ prev' = NoPrev
    /\ UNCHANGED <<session_id, call, sent, nreq, fn>>
    /\ UNCHANGED <<heap, tasks>>

\* a variant that takes the call's cookies back when the request fails
RequestFailed_Rollback ==
    /\ pc = "inflight"
    /\ \E why \in RemoteAnswers \ {"success"} :
        err' = [type |-> "RequestError", why |-> why]
    /\ cookies' = before
    /\ pc' = "idle"
    /\ prev' = NoPrev
    /\ UNCHANGED <<session_id, call, sent, resp, nreq, oneoff, before, fn>>
    /\ UNCHANGED <<heap, tasks>>

\* request after the transport call: the transport raised, the reply was
\* undecodable, or the remote answered success:false; each becomes
\* RequestError, nothing is ingested
RequestFailed ==
    /\ pc = "inflight"
    /\ \E why \in RemoteAnswers \ {"success"} :
        err' = [type |-> "RequestError", why |-> why]
    /\ pc' = "idle"
    /\ prev' = NoPrev
    /\ UNCHANGED <<session_id, cookies, call, sent, resp, nreq, oneoff, before, fn>>
    /\ UNCHANGED <<heap, tasks>>

Next ==
    \/ CreateSession
    \/ Close
    \/ RequestNoSession
    \/ RequestSend
    \/ RequestOk
    \/ RequestFailed

Spec == Init /\ [][Next]_vars

-----------------------------------------------------------------------------
(* Direct calls of _prepare_headers and _domain_matches *)

MaxHeaders == 3
MaxDomainLen == 3

\* stores a client can hold when _prepare_headers is called
StoreSamples ==
    { <<>>,
      << <<D_shop, << <<N_sid, V_1>> >> >>,
         <<D_parent, << <<N_sid, V_abc123>> >> >> >>,
      << <<D_parent, << <<N_sid, V_abc123>>, <<N_tok, V_zzz>> >> >>,
         <<D_shop, << <<N_init, V_hello>> >> >> >>,
      << <<D_nodot, << <<N_init, V_hello>> >> >>,
         <<D_api, << <<N_tok, V_zzz>> >> >> >> }

\* header lists of up to MaxHeaders entries
HeaderLists == UNION {[1..n -> HeaderPairs] : n \in 0..MaxHeaders}

\* strings of up to MaxDomainLen characters
DomainStrings == UNION {[1..n -> {"a", "A", "."}] : n \in 0..MaxDomainLen}

InitFn ==
    /\ session_id = "None"
    /\ cookies \in StoreSamples
    /\ pc = "idle"
    /\ call = NoCall
    /\ sent = <<>>
    /\ resp = <<>>
    /\ err = NoError
    /\ nreq = 0
    /\ oneoff = {}
    /\ before = <<>>
    /\ fn = NoFn
    /\ prev = NoPrev
    /\ heap = <<>>
    /\ tasks = <<>>

CallPrepareHeaders ==
    /\ fn = NoFn
    /\ \E headers \in HeaderLists, cks \in OneOffInputs, domain \in RequestDomains :
        fn' = [op |-> "_prepare_headers", headers |-> headers, cookies |-> cks,
               domain |-> domain, ret |-> PrepareHeaders(cookies, headers, cks, domain)]
    /\ UNCHANGED <<session_id, cookies, pc, call, sent, resp, err, nreq, oneoff, before, prev>>
    /\ UNCHANGED <<heap, tasks>>

CallDomainMatches ==
    /\ fn = NoFn
    /\ \E cookie_domain \in DomainStrings, request_domain \in DomainStrings :
        fn' = [op |-> "_domain_matches", cookie_domain |-> cookie_domain,
               request_domain |-> request_domain,
               ret |-> DomainMatches(cookie_domain, request_domain)]
    /\ UNCHANGED <<session_id, cookies, pc, call, sent, resp, err, nreq, oneoff, before, prev>>
    /\ UNCHANGED <<heap, tasks>>

NextFn ==
    \/ CallPrepareHeaders
    \/ CallDomainMatches

SpecFn == InitFn /\ [][NextFn]_vars

-----------------------------------------------------------------------------
(* The cookies property and get_cookies_for_domain.  Dicts are objects: the  *)
(* heap maps an object id to a dict's items; the values of self._cookies and *)
(* of a returned outer mapping are ids of per-domain dicts.                  *)

MaxObjects == 7
MaxEdits == 1

\* self._cookies
StoreRoot == 1

\* del d[k]
DictDel(d, k) == SelectSeq(d, LAMBDA item : item[1] # k)

\* the per-domain dict objects an outer dict refers to
InnerObjects(h, outer) == {h[outer][i][2] : i \in 1..Len(h[outer])}

\* the objects the client holds
StoreObjects(h) == {StoreRoot} \cup InnerObjects(h, StoreRoot)

\* the objects the caller holds: the returned value and what it refers to,
\* and the arguments it passed (0: None)
ViewObjects(h, f) ==
    IF f.op = "cookies" THEN {f.ret} \cup InnerObjects(h, f.ret)
    ELSE IF f.op = "get_cookies_for_domain" THEN {f.ret}
    ELSE IF f.op = "_prepare_headers" THEN {f.ret, f.headers, f.cookies} \ {0}
    ELSE {}

\* a new object: the lowest id not in use
Fresh(used) == CHOOSE o \in 1..MaxObjects \ used : \A q \in 1..MaxObjects \ used : o <= q

\* objects nobody holds are collected
Collect(h, live) == [o \in 1..MaxObjects |-> IF o \in live THEN h[o] ELSE <<>>]

\* the dict comprehension, from item i of self._cookies on: each per-domain
\* dict is copied into a new object
RECURSIVE CopyItems(_, _, _, _)
CopyItems(h, used, i, out) ==
    IF i > Len(h[StoreRoot]) THEN h
    ELSE LET item == h[StoreRoot][i]
             copy == Fresh(used)
         IN CopyItems([h EXCEPT ![copy] = h[item[2]],
                                ![out] = Append(@, <<item[1], copy>>)],
                      used \cup {copy}, i + 1, out)

\* a variant that copies the outer mapping only: dict(self._cookies)
CookiesProperty_Shallow(h, used) ==
    LET out == Fresh(used) IN
    [heap |-> [h EXCEPT ![out] = h[StoreRoot]], ret |-> out]

\* the cookies property
CookiesProperty(h, used) ==
    LET out == Fresh(used) IN
    [heap |-> CopyItems([h EXCEPT ![out] = <<>>], used \cup {out}, 1, out), ret |-> out]

\* get_cookies_for_domain: self._cookies.get(domain.lower(), {}).copy()
GetCookiesForDomain(h, used, domain) ==
    LET key   == Lower(domain)
        found == IF DictHas(h[StoreRoot], key) THEN h[DictGet(h[StoreRoot], key)] ELSE <<>>
        copy  == Fresh(used)
    IN [heap |-> [h EXCEPT ![copy] = found], ret |-> copy]

\* request: the call's cookies go into the per-domain dict object, created
\* when the domain is new
HeapStoreOneOff(h, used, domain, cks) ==
    IF cks # <<>>
    THEN LET created == IF DictHas(h[StoreRoot], domain) THEN h
                        ELSE LET o == Fresh(used) IN
                             [h EXCEPT ![o] = <<>>,
                                       ![StoreRoot] = Append(@, <<domain, o>>)]
             target  == DictGet(created[StoreRoot], domain)
         IN [created EXCEPT ![target] = DictUpdate(@, cks)]
    ELSE h

\* step 2 of _prepare_headers on the objects, from item i of self._cookies
\* on: merged_cookies.update(domain_cookies) for the domains that apply
RECURSIVE HeapMergeStored(_, _, _, _)
HeapMergeStored(h, merged, i, domain) ==
    IF i > Len(h[StoreRoot]) THEN h
    ELSE LET cookie_domain  == h[StoreRoot][i][1]
             domain_cookies == h[StoreRoot][i][2]
         IN IF cookie_domain = domain \/ DomainMatches(cookie_domain, domain)
            THEN HeapMergeStored([h EXCEPT ![merged] = DictUpdate(@, h[domain_cookies])],
                                 merged, i + 1, domain)
            ELSE HeapMergeStored(h, merged, i + 1, domain)

\* a variant that also keeps the call's cookies in the store, as request does
HeapPrepareHeaders_Storing(h, used, headers, cks, domain) ==
    LET headers_list == IF headers = 0 THEN <<>> ELSE h[headers]
        merged       == Fresh(used)
        stored       == HeapMergeStored([h EXCEPT ![merged] = <<>>], merged, 1, domain)
        updated      == IF cks # 0 /\ stored[cks] # <<>>
                        THEN [stored EXCEPT ![merged] = DictUpdate(@, stored[cks])]
                        ELSE stored
        kept         == IF cks # 0
                        THEN HeapStoreOneOff(updated, used \cup {merged}, domain, updated[cks])
                        ELSE updated
        result       == Fresh(used \cup {merged} \cup StoreObjects(kept))
        normal       == NormalHeaders(headers_list)
        with_cookie  == IF kept[merged] # <<>>
                        THEN Append(normal, <<STR_cookie, CookieStr(kept[merged])>>)
                        ELSE normal
    IN [heap |-> [kept EXCEPT ![result] = with_cookie \o PriorityHeaders(headers_list)],
        ret |-> result]

\* _prepare_headers on the objects: headers and cks are the caller's list and
\* dict (0: None); headers_list, the buckets and merged_cookies are new
\* objects, the result is the normal bucket
HeapPrepareHeaders(h, used, headers, cks, domain) ==
    LET headers_list == IF headers = 0 THEN <<>> ELSE h[headers]
        merged       == Fresh(used)
        stored       == HeapMergeStored([h EXCEPT ![merged] = <<>>], merged, 1, domain)
        updated      == IF cks # 0 /\ stored[cks] # <<>>
                        THEN [stored EXCEPT ![merged] = DictUpdate(@, stored[cks])]
                        ELSE stored
        result       == Fresh(used \cup {merged})
        normal       == NormalHeaders(headers_list)
        with_cookie  == IF updated[merged] # <<>>
                        THEN Append(normal, <<STR_cookie, CookieStr(updated[merged])>>)
                        ELSE normal
    IN [heap |-> [updated EXCEPT ![result] = with_cookie \o PriorityHeaders(headers_list)],
        ret |-> result]

ViewDomains == {D_parent, D_shop}
\* the headers= and cookies= arguments of a direct call of _prepare_headers
ViewHeaders == {<<>>, <<HP_Cookie, HP_Priority, HP_Accept>>}
ViewCookies == {<<>>, << <<N_sid, V_zzz>> >>}
ViewNames == {N_sid, N_tok}
ViewValues == {V_1}

InitView ==
    /\ session_id = "sid"
    /\ cookies = <<>>
    /\ pc = "idle"
    /\ call = NoCall
    /\ sent = <<>>
    /\ resp = <<>>
    /\ err = NoError
    /\ nreq = 0
    /\ oneoff = {}
    /\ before = <<>>
    /\ fn = NoFn
    /\ prev = NoPrev
    /\ heap = [o \in 1..MaxObjects |-> <<>>]
    /\ tasks = <<>>

\* the caller reads client.cookies; the value it held before is dropped
ReadCookies ==
    /\ Cardinality(StoreObjects(heap)) * 2 <= MaxObjects
    /\ LET r == CookiesProperty(Collect(heap, StoreObjects(heap)), StoreObjects(heap)) IN
        /\ heap' = r.heap
        /\ fn' = [op |-> "cookies", ret |-> r.ret, expect |-> cookies,
                  edits |-> 0, stale |-> FALSE]
    /\ UNCHANGED <<session_id, cookies, pc, call, sent, resp, err, nreq, oneoff, before,
                   prev, tasks>>

\* the caller calls client.get_cookies_for_domain(domain)
ReadCookiesForDomain ==
    /\ Cardinality(StoreObjects(heap)) < MaxObjects
    /\ \E domain \in {D_parent, Netloc(URL_shop), D_api} :
        LET r == GetCookiesForDomain(Collect(heap, StoreObjects(heap)),
                                     StoreObjects(heap), domain)
        IN /\ heap' = r.heap
           /\ fn' = [op |-> "get_cookies_for_domain", ret |-> r.ret,
                     domain |-> domain,
                     expect |-> IF DictHas(cookies, Lower(domain))
                                THEN DictGet(cookies, Lower(domain)) ELSE <<>>,
                     edits |-> 0, stale |-> FALSE]
    /\ UNCHANGED <<session_id, cookies, pc, call, sent, resp, err, nreq, oneoff, before,
                   prev, tasks>>

\* the client stores the cookies= argument of a request
StoreWrite ==
    /\ Cardinality(StoreObjects(heap) \cup ViewObjects(heap, fn)) < MaxObjects
    /\ nreq < MaxRequests
    /\ nreq' = nreq + 1
    /\ \E domain \in ViewDomains, n \in ViewNames, v \in ViewValues :
        /\ heap' = HeapStoreOneOff(heap, StoreObjects(heap) \cup ViewObjects(heap, fn),
                                   domain, << <<n, v>> >>)
        /\ cookies' = StoreOneOff(cookies, domain, << <<n, v>> >>)
    /\ fn' = IF fn = NoFn THEN fn ELSE [fn EXCEPT !.stale = TRUE]
    /\ UNCHANGED <<session_id, pc, call, sent, resp, err, oneoff, before, prev, tasks>>

\* the caller changes the per-domain map it got: m[n] = v, or del m[n]
EditMap ==
    /\ fn.op \in {"cookies", "get_cookies_for_domain"}
    /\ fn.edits < MaxEdits
    /\ \E k \in 1..Len(heap[fn.ret]), n \in ViewNames, v \in {V_zzz, <<>>} :
        LET whole  == fn.op = "get_cookies_for_domain"
            target == IF whole THEN fn.ret ELSE heap[fn.ret][k][2]
            edit(m) == IF v = <<>> THEN DictDel(m, n) ELSE DictSet(m, n, v)
        IN /\ whole => k = 1
           /\ heap' = [heap EXCEPT ![target] = edit(@)]
           /\ fn' = [fn EXCEPT !.edits = @ + 1,
                               !.expect = IF whole THEN edit(@)
                                          ELSE DictSet(@, @[k][1], edit(@[k][2]))]
    /\ UNCHANGED <<session_id, cookies, pc, call, sent, resp, err, nreq, oneoff, before,
                   prev, tasks>>

\* the caller changes the outer mapping it got: s[d] = {}, or del s[d]
EditOuter ==
    /\ fn.op = "cookies"
    /\ fn.edits < MaxEdits
    /\ Cardinality(StoreObjects(heap) \cup ViewObjects(heap, fn)) < MaxObjects
    /\ \E d \in ViewDomains, delete \in BOOLEAN :
        IF delete
        THEN /\ heap' = Collect([heap EXCEPT ![fn.ret] = DictDel(@, d)],
                                StoreObjects(heap) \cup {fn.ret}
                                    \cup InnerObjects([heap EXCEPT ![fn.ret] = DictDel(@, d)],
                                                      fn.ret))
             /\ fn' = [fn EXCEPT !.edits = @ + 1, !.expect = DictDel(@, d)]
        ELSE LET o == Fresh(StoreObjects(heap) \cup ViewObjects(heap, fn)) IN
             /\ heap' = [heap EXCEPT ![o] = <<>>, ![fn.ret] = DictSet(@, d, o)]
             /\ fn' = [fn EXCEPT !.edits = @ + 1, !.expect = DictSet(@, d, <<>>)]
    /\ UNCHANGED <<session_id, cookies, pc, call, sent, resp, err, nreq, oneoff, before,
                   prev, tasks>>

\* the caller calls client._prepare_headers(headers, cookies, domain) with a
\* list and a dict of its own (cookies=None when it has none)
ComposeOnHeap ==
    /\ Cardinality(StoreObjects(heap)) + 4 <= MaxObjects
    /\ \E headers \in ViewHeaders, cks \in ViewCookies, domain \in {D_shop, D_api} :
        \E mine \in {StoreObjects(heap)} :
        \E ho \in {Fresh(mine)} :
        \E co \in {IF cks = <<>> THEN 0 ELSE Fresh(mine \cup {ho})} :
        \E h0 \in {[o \in 1..MaxObjects |->
                       IF o = ho THEN headers ELSE IF o = co THEN cks
                       ELSE IF o \in mine THEN heap[o] ELSE <<>>]} :
        \E r \in {HeapPrepareHeaders(h0, (mine \cup {ho, co}) \ {0}, ho, co, domain)} :
            /\ heap' = Collect(r.heap, (StoreObjects(r.heap) \cup {ho, co, r.ret}) \ {0})
            /\ fn' = [op |-> "_prepare_headers", ret |-> r.ret, headers |-> ho,
                      cookies |-> co, domain |-> domain,
                      expect |-> [headers |-> headers, cookies |-> cks],
                      edits |-> 0, stale |-> FALSE]
    /\ UNCHANGED <<session_id, cookies, pc, call, sent, resp, err, nreq, oneoff, before,
                   prev, tasks>>

NextView ==
    \/ ReadCookies
    \/ ReadCookiesForDomain
    \/ StoreWrite
    \/ EditMap
    \/ EditOuter

SpecView == InitView /\ [][NextView]_vars

\* direct calls of _prepare_headers on a client whose store requests have filled
NextCompose ==
    \/ ComposeOnHeap
    \/ StoreWrite

SpecCompose == InitView /\ [][NextCompose]_vars

-----------------------------------------------------------------------------
(* AsyncCronetClient.request: overlapping calls on one client.  A task runs  *)
(* without interruption from one await to the next; between two awaits any  *)
(* other task may run, and a task waiting in an await may be cancelled.      *)

MaxTasks == 2

\* the requests and responses of overlapping calls
TaskRequests ==
    { [url |-> URL_api, cookies |-> <<>>],
      [url |-> URL_shop, cookies |-> << <<N_init, V_hello>> >>] }

TaskResponses ==
    { << <<H_set_cookie, <<SC_tok>>>> >>,
      << <<H_Set_Cookie, <<SC_empty_dom>>>> >>,
      << <<H_Set_Cookie, <<SC_upper>>>>, <<H_set_cookie, <<SC_child>>>> >> }

NewTask == [pc |-> "new", domain |-> <<>>, cookies |-> <<>>, sent |-> <<>>,
            success |-> FALSE, got |-> <<>>, data |-> <<>>, started |-> 0, ended |-> 0]

\* the number of the next store access among those of all tasks
Tick(ts) ==
    Cardinality({t \in DOMAIN ts : ts[t].started > 0})
    + Cardinality({t \in DOMAIN ts : ts[t].ended > 0}) + 1

InitAsync ==
    /\ session_id = "sid"
    /\ cookies = <<>>
    /\ pc = "idle"
    /\ call = NoCall
    /\ sent = <<>>
    /\ resp = <<>>
    /\ err = NoError
    /\ nreq = 0
    /\ oneoff = {}
    /\ before = <<>>
    /\ fn = NoFn
    /\ prev = NoPrev
    /\ heap = <<>>
    /\ tasks = [t \in 1..MaxTasks |-> NewTask]

\* request, from the call to the first suspension inside http_session.post:
\* the session check, the call's cookies stored, the headers composed; the
\* tasks are numbered in the order of their calls
AsyncStart(t) ==
    /\ tasks[t].pc = "new"
    /\ t > 1 => tasks[t - 1].pc # "new"
    /\ session_id # "None"
    /\ \E in \in TaskRequests :
        LET domain == ExtractDomain(in.url)
            store  == StoreOneOff(cookies, domain, in.cookies)
        IN /\ cookies' = store
           /\ tasks' = [tasks EXCEPT ![t] =
                  [@ EXCEPT !.pc = "post", !.domain = domain, !.cookies = in.cookies,
                            !.sent = PrepareHeaders(store, <<>>, in.cookies, domain),
                            !.started = Tick(tasks)]]
    /\ UNCHANGED <<session_id, pc, call, sent, resp, err, nreq, oneoff, before, fn, prev, heap>>

\* a variant that composes the headers once the connection is made, from the
\* store as it is then
AsyncPosted_Composing(t) ==
    /\ tasks[t].pc = "post"
    /\ \E ok \in BOOLEAN :
        tasks' = [tasks EXCEPT ![t].pc = IF ok THEN "json" ELSE "failed",
                               ![t].sent = PrepareHeaders(cookies, <<>>, tasks[t].cookies,
                                                          tasks[t].domain)]
    /\ UNCHANGED <<session_id, cookies, pc, call, sent, resp, err, nreq, oneoff, before, fn,
                   prev, heap>>

\* async with http_session.post(...) as resp: the answer arrives, or the
\* transport raises aiohttp.ClientError, re-raised as RequestError
AsyncPosted(t) ==
    /\ tasks[t].pc = "post"
    /\ \E ok \in BOOLEAN :
        tasks' = [tasks EXCEPT ![t].pc = IF ok THEN "json" ELSE "failed"]
    /\ UNCHANGED <<session_id, cookies, pc, call, sent, resp, err, nreq, oneoff, before, fn,
                   prev, heap>>

\* data = await resp.json(): the remote reports a response or success:false
AsyncBody(t) ==
    /\ tasks[t].pc = "json"
    /\ \/ \E r \in TaskResponses :
             tasks' = [tasks EXCEPT ![t] =
                         [@ EXCEPT !.pc = "exit", !.success = TRUE, !.got = r, !.data = r]]
       \/ tasks' = [tasks EXCEPT ![t].pc = "exit"]
    /\ UNCHANGED <<session_id, cookies, pc, call, sent, resp, err, nreq, oneoff, before, fn,
                   prev, heap>>

\* a variant that suspends after each response header it has ingested
AsyncFinish_Suspending(t) ==
    /\ tasks[t].pc = "exit"
    /\ IF ~tasks[t].success
       THEN /\ tasks' = [tasks EXCEPT ![t].pc = "failed"]
            /\ UNCHANGED cookies
       ELSE IF tasks[t].data = <<>>
       THEN /\ tasks' = [tasks EXCEPT ![t].pc = "done", ![t].ended = Tick(tasks)]
            /\ UNCHANGED cookies
       ELSE /\ cookies' = UpdateCookiesFromResponse(cookies, <<Head(tasks[t].data)>>,
                                                    tasks[t].domain)
            /\ tasks' = [tasks EXCEPT ![t].data = Tail(@)]
    /\ UNCHANGED <<session_id, pc, call, sent, resp, err, nreq, oneoff, before, fn,
                   prev, heap>>

\* request, from leaving the async with block to the return: success:false
\* raises RequestError, else the response's cookies are ingested
AsyncFinish(t) ==
    /\ tasks[t].pc = "exit"
    /\ IF ~tasks[t].success
       THEN /\ tasks' = [tasks EXCEPT ![t].pc = "failed"]
            /\ UNCHANGED cookies
       ELSE /\ cookies' = UpdateCookiesFromResponse(cookies, tasks[t].data, tasks[t].domain)
            /\ tasks' = [tasks EXCEPT ![t].pc = "done", ![t].ended = Tick(tasks)]
    /\ UNCHANGED <<session_id, pc, call, sent, resp, err, nreq, oneoff, before, fn,
                   prev, heap>>

\* the task is cancelled while it waits in one of its awaits: CancelledError
\* is raised there, and neither except clause of request catches it
AsyncCancel(t) ==
    /\ tasks[t].pc \in {"post", "json", "exit"}
    /\ tasks' = [tasks EXCEPT ![t].pc = "cancelled", ![t].ended = Tick(tasks)]
    /\ UNCHANGED <<session_id, cookies, pc, call, sent, resp, err, nreq, oneoff, before, fn,
                   prev, heap>>

NextAsync ==
    \E t \in 1..MaxTasks :
        \/ AsyncStart(t)
        \/ AsyncPosted(t)
        \/ AsyncBody(t)
        \/ AsyncFinish(t)
        \/ AsyncCancel(t)

SpecAsync == InitAsync /\ [][NextAsync]_vars

-----------------------------------------------------------------------------
(* CronetClient.request called from several threads on one client: a thread  *)
(* can be preempted between any two statements that read or write            *)
(* self._cookies.                                                            *)

NewThread == [pc |-> "new", domain |-> <<>>, cookies |-> <<>>, sent |-> <<>>,
              got |-> <<>>, pending |-> <<>>, absent |-> FALSE]

\* the tuples _parse_set_cookie returns for the set-cookie entries of the
\* response headers, in the order the two loops visit them
RECURSIVE ParsedOf(_)
ParsedOf(headers) ==
    IF headers = <<>> THEN <<>>
    ELSE (IF Lower(Head(headers)[1]) = STR_set_cookie
          THEN ParseSetCookie(Head(headers)[2]) ELSE <<>>)
         \o ParsedOf(Tail(headers))

InitThreads ==
    /\ session_id = "sid"
    /\ cookies = <<>>
    /\ pc = "idle"
    /\ call = NoCall
    /\ sent = <<>>
    /\ resp = <<>>
    /\ err = NoError
    /\ nreq = 0
    /\ oneoff = {}
    /\ before = <<>>
    /\ fn = NoFn
    /\ prev = NoPrev
    /\ heap = <<>>
    /\ tasks = [t \in 1..MaxTasks |-> NewThread]

\* request: the session check and the domain of the url; the threads are
\* numbered in the order of their calls
ThreadCall(t) ==
    /\ tasks[t].pc = "new"
    /\ t > 1 => tasks[t - 1].pc # "new"
    /\ session_id # "None"
    /\ \E in \in TaskRequests :
        tasks' = [tasks EXCEPT ![t] =
            [@ EXCEPT !.pc = IF in.cookies # <<>> THEN "oneoff_test" ELSE "compose",
                      !.domain = ExtractDomain(in.url), !.cookies = in.cookies]]
    /\ UNCHANGED <<session_id, cookies, pc, call, sent, resp, err, nreq, oneoff, before, fn,
                   prev, heap>>

\* if domain not in self._cookies:
ThreadOneOffTest(t) ==
    /\ tasks[t].pc = "oneoff_test"
    /\ tasks' = [tasks EXCEPT ![t].absent = ~DictHas(cookies, tasks[t].domain),
                              ![t].pc = IF ~DictHas(cookies, tasks[t].domain)
                                        THEN "oneoff_create" ELSE "oneoff_update"]
    /\ UNCHANGED <<session_id, cookies, pc, call, sent, resp, err, nreq, oneoff, before, fn,
                   prev, heap>>

\* self._cookies[domain] = {}
ThreadOneOffCreate(t) ==
    /\ tasks[t].pc = "oneoff_create"
    /\ cookies' = DictSet(cookies, tasks[t].domain, <<>>)
    /\ tasks' = [tasks EXCEPT ![t].pc = "oneoff_update"]
    /\ UNCHANGED <<session_id, pc, call, sent, resp, err, nreq, oneoff, before, fn,
                   prev, heap>>

\* self._cookies[domain].update(cookies)
ThreadOneOffUpdate(t) ==
    /\ tasks[t].pc = "oneoff_update"
    /\ cookies' = DictSet(cookies, tasks[t].domain,
                          DictUpdate(DictGet(cookies, tasks[t].domain), tasks[t].cookies))
    /\ tasks' = [tasks EXCEPT ![t].pc = "compose"]
    /\ UNCHANGED <<session_id, pc, call, sent, resp, err, nreq, oneoff, before, fn,
                   prev, heap>>

\* the payload with self._prepare_headers(headers, cookies, domain)
ThreadCompose(t) ==
    /\ tasks[t].pc = "compose"
    /\ tasks' = [tasks EXCEPT ![t].pc = "transport",
                              ![t].sent = PrepareHeaders(cookies, <<>>, tasks[t].cookies,
                                                         tasks[t].domain)]
    /\ UNCHANGED <<session_id, cookies, pc, call, sent, resp, err, nreq, oneoff, before, fn,
                   prev, heap>>

\* self._requests.post(...) returns a response, or the request fails; the
\* set-cookie values of the response are parsed
ThreadTransport(t) ==
    /\ tasks[t].pc = "transport"
    /\ \/ \E r \in TaskResponses :
             tasks' = [tasks EXCEPT ![t].got = r, ![t].pending = ParsedOf(r),
                                    ![t].pc = IF ParsedOf(r) = <<>> THEN "done"
                                              ELSE "ingest_test"]
       \/ tasks' = [tasks EXCEPT ![t].pc = "failed"]
    /\ UNCHANGED <<session_id, cookies, pc, call, sent, resp, err, nreq, oneoff, before, fn,
                   prev, heap>>

\* if store_domain not in self._cookies:
ThreadIngestTest(t) ==
    /\ tasks[t].pc = "ingest_test"
    /\ LET store_domain == StoreDomain(Head(tasks[t].pending)[3], tasks[t].domain) IN
        tasks' = [tasks EXCEPT ![t].absent = ~DictHas(cookies, store_domain),
                               ![t].pc = IF ~DictHas(cookies, store_domain)
                                         THEN "ingest_create" ELSE "ingest_assign"]
    /\ UNCHANGED <<session_id, cookies, pc, call, sent, resp, err, nreq, oneoff, before, fn,
                   prev, heap>>

\* self._cookies[store_domain] = {}
ThreadIngestCreate(t) ==
    /\ tasks[t].pc = "ingest_create"
    /\ cookies' = DictSet(cookies,
                          StoreDomain(Head(tasks[t].pending)[3], tasks[t].domain), <<>>)
    /\ tasks' = [tasks EXCEPT ![t].pc = "ingest_assign"]
    /\ UNCHANGED <<session_id, pc, call, sent, resp, err, nreq, oneoff, before, fn,
                   prev, heap>>

\* self._cookies[store_domain][cookie_name] = cookie_value, then the next
\* parsed cookie
ThreadIngestAssign(t) ==
    /\ tasks[t].pc = "ingest_assign"
    /\ LET c            == Head(tasks[t].pending)
           store_domain == StoreDomain(c[3], tasks[t].domain)
       IN cookies' = DictSet(cookies, store_domain,
                             DictSet(DictGet(cookies, store_domain), c[1], c[2]))
    /\ tasks' = [tasks EXCEPT ![t].pending = Tail(@),
                              ![t].pc = IF Tail(tasks[t].pending) = <<>> THEN "done"
                                        ELSE "ingest_test"]
    /\ UNCHANGED <<session_id, pc, call, sent, resp, err, nreq, oneoff, before, fn,
                   prev, heap>>

NextThreads ==
    \E t \in 1..MaxTasks :
        \/ ThreadCall(t)
        \/ ThreadOneOffTest(t)
        \/ ThreadOneOffCreate(t)
        \/ ThreadOneOffUpdate(t)
        \/ ThreadCompose(t)
        \/ ThreadTransport(t)
        \/ ThreadIngestTest(t)
        \/ ThreadIngestCreate(t)
        \/ ThreadIngestAssign(t)

SpecThreads == InitThreads /\ [][NextThreads]_vars

-----------------------------------------------------------------------------
(* Direct calls of _parse_set_cookie *)

MaxValueLen == 7

\* raw Set-Cookie values of up to MaxValueLen characters
RawValues == UNION {[1..n -> {"n", "=", ";", " "}] : n \in 0..MaxValueLen}

InitParse ==
    /\ session_id = "None"
    /\ cookies = <<>>
    /\ pc = "idle"
    /\ call = NoCall
    /\ sent = <<>>
    /\ resp = <<>>
    /\ err = NoError
    /\ nreq = 0
    /\ oneoff = {}
    /\ before = <<>>
    /\ fn = NoFn
    /\ prev = NoPrev
    /\ heap = <<>>
    /\ tasks = <<>>

CallParseSetCookie ==
    /\ fn = NoFn
    /\ \E value \in RawValues :
        fn' = [op |-> "_parse_set_cookie", set_cookie_values |-> <<value>>,
               ret |-> ParseSetCookie(<<value>>)]
    /\ UNCHANGED <<session_id, cookies, pc, call, sent, resp, err, nreq, oneoff, before, prev>>
    /\ UNCHANGED <<heap, tasks>>

NextParse == CallParseSetCookie

SpecParse == InitParse /\ [][NextParse]_vars

-----------------------------------------------------------------------------
(* Properties of the header composer, stated on its arguments and result *)

IsCookieName(h) == Lower(h[1]) = STR_cookie
IsPriorityName(h) == Lower(h[1]) = STR_priority
IsOrdinaryName(h) == ~IsCookieName(h) /\ ~IsPriorityName(h)

\* K is D, or D is some prefix, a dot, then K
IsParentOrSelf(K, D) ==
    \/ K = D
    \/ K # <<>> /\ \E i \in 1..Len(D) : D[i] = "." /\ SubSeq(D, i + 1, Len(D)) = K

\* all name/value pairs that can reach the cookie header, oldest first: the
\* cookies of the stored domains that apply to D in store order, then the
\* call's own
RECURSIVE ApplicableItems(_, _)
ApplicableItems(store, D) ==
    IF store = <<>> THEN <<>>
    ELSE (IF IsParentOrSelf(Head(store)[1], D) THEN Head(store)[2] ELSE <<>>)
         \o ApplicableItems(Tail(store), D)

\* the merged mapping as a list: one pair per name, at the place of the
\* name's first occurrence, with the value of its last occurrence
ExpectedMerged(store, cks, D) ==
    LET items == ApplicableItems(store, D) \o cks
        first == {i \in 1..Len(items) : \A j \in 1..(i - 1) : items[j][1] # items[i][1]}
        last(n) == CHOOSE i \in 1..Len(items) :
                      /\ items[i][1] = n
                      /\ \A j \in (i + 1)..Len(items) : items[j][1] # n
        keep == SelectSeq([i \in 1..Len(items) |-> i], LAMBDA i : i \in first)
    IN [k \in 1..Len(keep) |-> <<items[keep[k]][1], items[last(items[keep[k]][1])][2]>>]

\* the name/value pairs a cookie header value carries: the text between the
\* "; " separators, cut at the first "="
CookiePairs(value) ==
    LET parts == Split(value, ";")
        text(i) == IF i > 1 /\ parts[i] # <<>> /\ parts[i][1] = " "
                   THEN Tail(parts[i]) ELSE parts[i]
    IN [i \in 1..Len(parts) |->
           LET nv == Split1(text(i), "=") IN
           <<nv[1], IF Len(nv) = 2 THEN nv[2] ELSE <<>> >>]

\* positions of the composed cookie header in a header list
ComposedAt(headers) == {i \in 1..Len(headers) : headers[i][1] = STR_cookie}

\* the pairs carried by the composed cookie header of a header list, <<>> when
\* it has none
CarriedPairs(headers) ==
    LET at == ComposedAt(headers) IN
    IF at = {} THEN <<>>
    ELSE CookiePairs(headers[CHOOSE i \in at : TRUE][2])

Composed == fn.op = "_prepare_headers"

\* C1: the result of _prepare_headers is the ordinary input headers in input
\* order, then one ["cookie", ...] entry exactly when some cookie applies
\* (a one-off cookie, or a cookie stored under the request domain or a parent
\* of it), then the priority-named input headers in input order; no
\* non-priority entry follows a priority entry.
C1_OrdinaryCookiePriority ==
    Composed =>
        LET ordinary == SelectSeq(fn.headers, IsOrdinaryName)
            priority == SelectSeq(fn.headers, IsPriorityName)
            some     == ApplicableItems(cookies, fn.domain) \o fn.cookies # <<>>
            r        == fn.ret
        IN /\ Len(r) = Len(ordinary) + (IF some THEN 1 ELSE 0) + Len(priority)
           /\ SubSeq(r, 1, Len(ordinary)) = ordinary
           /\ SubSeq(r, Len(r) - Len(priority) + 1, Len(r)) = priority
           /\ some => r[Len(ordinary) + 1][1] = STR_cookie
           /\ \A i \in 1..Len(r) : \A j \in (i + 1)..Len(r) :
                 IsPriorityName(r[i]) => IsPriorityName(r[j])

\* C1 witness: an ordinary header between two priority headers in the input;
\* the result is the ordinary header, the cookie entry, the two priority headers
C1_Witness ==
    /\ Composed
    /\ fn.headers = <<HP_priority, HP_Accept, HP_Priority>>
    /\ fn.ret = <<HP_Accept, <<STR_cookie, N_init \o <<"=">> \o V_hello>>,
                  HP_priority, HP_Priority>>

C3_CallerCookieDiscarded ==
    Composed =>
        LET r      == fn.ret
            named  == {i \in 1..Len(r) : IsCookieName(r[i])}
            merged == ExpectedMerged(cookies, fn.cookies, fn.domain)
            kept   == SelectSeq(fn.headers, LAMBDA h : ~IsCookieName(h))
        IN /\ Cardinality(named) <= 1
           /\ (named # {}) <=> (merged # <<>>)
           /\ \A i \in named :
                 /\ r[i][1] = STR_cookie
                 /\ CookiePairs(r[i][2]) = merged
                 /\ r[i][2] = Join([k \in 1..Len(merged) |->
                                      merged[k][1] \o <<"=">> \o merged[k][2]],
                                   <<";", " ">>)
           /\ Len(r) = Len(kept) + Cardinality(named)
           /\ \A i \in (1..Len(r)) \ named : \E k \in 1..Len(kept) : kept[k] = r[i]

\* C3 witness: the input carries Cookie and COOKIE headers with forged values,
\* the result carries one cookie header made from the store
C3_Witness ==
    /\ Composed
    /\ \E i, j \in 1..Len(fn.headers) : fn.headers[i] = HP_Cookie /\ fn.headers[j] = HP_COOKIE
    /\ \E i \in 1..Len(fn.ret) :
          fn.ret[i] = <<STR_cookie, N_sid \o <<"=">> \o V_abc123 \o <<";", " ">>
                                    \o N_tok \o <<"=">> \o V_zzz>>

\* C4: every one-off cookie n=v of the call is carried by the composed cookie
\* header, and the header carries no other value for n, whatever the stored
\* domains hold for n.
C4_OneOffWins ==
    Composed =>
        \A k \in 1..Len(fn.cookies) :
            LET pairs == CarriedPairs(fn.ret)
                at    == {i \in 1..Len(pairs) : pairs[i][1] = fn.cookies[k][1]}
            IN /\ Cardinality(at) = 1
               /\ \A i \in at : pairs[i][2] = fn.cookies[k][2]

\* C4 witness: the parent of the request domain stores sid=abc123, the call
\* passes sid=1, the header carries sid=1 in the place of the stored sid
C4_Witness ==
    /\ Composed
    /\ fn.cookies = << <<N_sid, V_1>> >>
    /\ fn.domain = D_shop
    /\ DictHas(cookies, D_parent)
    /\ DictGet(DictGet(cookies, D_parent), N_sid) = V_abc123
    /\ CarriedPairs(fn.ret) = << <<N_sid, V_1>>, <<N_tok, V_zzz>>, <<N_init, V_hello>> >>

\* C6: _domain_matches is true exactly when the cookie domain is not empty
\* and, both lower-cased, the request domain equals it or ends with "." and
\* the cookie domain; so it is false for a request domain that is one more
\* character, not a dot, before the cookie domain, and false for the empty
\* cookie domain.
C6_DomainMatches ==
    fn.op = "_domain_matches" =>
        LET cd == Lower(fn.cookie_domain)
            rd == Lower(fn.request_domain)
        IN /\ fn.ret <=> (fn.cookie_domain # <<>> /\ IsParentOrSelf(cd, rd))
           /\ (fn.cookie_domain = <<>>) => ~fn.ret
           /\ (fn.cookie_domain # <<>> /\ Len(rd) = Len(cd) + 1 /\ rd[1] # "."
               /\ Tail(rd) = cd) => ~fn.ret

\* C6 witness: a cookie domain that is a suffix of the request domain without
\* a separating dot, answered false
C6_Witness ==
    /\ fn.op = "_domain_matches"
    /\ fn.cookie_domain = <<"a">>
    /\ fn.request_domain = <<"A", "a">>
    /\ fn.ret = FALSE

-----------------------------------------------------------------------------
(* Properties of a session: requests and ingested responses *)

\* the value stored for name n under domain K: <<v>>, or <<>> when absent
Lookup(store, K, n) ==
    IF DictHas(store, K) /\ DictHas(DictGet(store, K), n)
    THEN <<DictGet(DictGet(store, K), n)>>
    ELSE <<>>

\* the stored cookies as a set of <<domain, name, value>>
Entries(store) ==
    UNION {{<<store[i][1], store[i][2][k][1], store[i][2][k][2]>> :
                k \in 1..Len(store[i][2])} : i \in 1..Len(store)}

\* the raw Set-Cookie values of a response, in order
RECURSIVE SetCookieValues(_)
SetCookieValues(headers) ==
    IF headers = <<>> THEN <<>>
    ELSE (IF Lower(Head(headers)[1]) = <<"s","e","t","-","c","o","o","k","i","e">>
          THEN Head(headers)[2] ELSE <<>>)
         \o SetCookieValues(Tail(headers))

\* the first ;-delimited segment of a raw value, trimmed
FirstSegment(v) == Strip(Split(v, ";")[1])

WellFormed(v) == Contains(FirstSegment(v), "=")

\* the text before / after the first "=" of the first segment, trimmed
CookieName(v) ==
    LET seg == FirstSegment(v)
        eq  == CHOOSE i \in 1..Len(seg) : seg[i] = "=" /\ \A j \in 1..(i - 1) : seg[j] # "="
    IN Strip(SubSeq(seg, 1, eq - 1))

CookieValue(v) ==
    LET seg == FirstSegment(v)
        eq  == CHOOSE i \in 1..Len(seg) : seg[i] = "=" /\ \A j \in 1..(i - 1) : seg[j] # "="
    IN Strip(SubSeq(seg, eq + 1, Len(seg)))

\* the later segments that begin, trimmed and in any case, with domain=
DomainSegments(v) ==
    LET parts == Split(v, ";") IN
    {i \in 2..Len(parts) :
        LET seg == Strip(parts[i]) IN
        Len(seg) >= 7 /\ Lower(SubSeq(seg, 1, 7)) = <<"d","o","m","a","i","n","=">>}

\* the declared domain: of the first such segment the text after domain=,
\* trimmed, lower-cased, without one leading dot; empty without such a segment
DeclaredDomain(v) ==
    LET found == DomainSegments(v) IN
    IF found = {} THEN <<>>
    ELSE LET parts == Split(v, ";")
             i     == CHOOSE k \in found : \A m \in found : k <= m
             seg   == Strip(parts[i])
             d     == Lower(Strip(SubSeq(seg, 8, Len(seg))))
         IN IF d # <<>> /\ d[1] = "." THEN SubSeq(d, 2, Len(d)) ELSE d

\* what a raw value asks to store: whether its first segment is name=value,
\* and then the name, the value, the declared domain and the storage domain
ReadValue(v) ==
    IF WellFormed(v)
    THEN [ok |-> TRUE, name |-> CookieName(v), value |-> CookieValue(v),
          declared |-> DeclaredDomain(v)]
    ELSE [ok |-> FALSE, name |-> <<>>, value |-> <<>>, declared |-> <<>>]

\* the header values of the sample responses, and what each asks to store
ResponseValues ==
    UNION {UNION {{r[j][2][i] : i \in 1..Len(r[j][2])} : j \in 1..Len(r)} :
              r \in ResponseInputs}

ReadValues == [v \in ResponseValues |-> ReadValue(v)]

\* the same, with the storage domain for a request to domain rd
Reading(v, rd) ==
    LET r == IF v \in ResponseValues THEN ReadValues[v] ELSE ReadValue(v) IN
    [ok |-> r.ok, name |-> r.name, value |-> r.value, declared |-> r.declared,
     key |-> IF ~r.ok THEN <<>> ELSE IF r.declared # <<>> THEN r.declared ELSE rd]

\* the readings of the Set-Cookie values of a response to a request for
\* domain rd, in order
ReadingsOf(headers, rd) ==
    LET vs == SetCookieValues(headers) IN
    [i \in 1..Len(vs) |-> Reading(vs[i], rd)]

\* the readings of the Set-Cookie values of the last response, in order
Readings == ReadingsOf(resp, call.domain)

\* the remote answered the last request with a response, which was ingested
Answered == pc = "idle" /\ resp # <<>>

\* reading i of the list is the last one of it to write its (domain, name)
LastWriter(rs, i) ==
    \A j \in (i + 1)..Len(rs) :
        ~(rs[j].ok /\ rs[j].key = rs[i].key /\ rs[j].name = rs[i].name)

\* some reading of the list writes name n under domain K
Writes(rs, K, n) ==
    \E j \in 1..Len(rs) : rs[j].ok /\ rs[j].key = K /\ rs[j].name = n

\* C5: the composed cookie header of a request to domain D carries a name
\* only if the name is one of the call's one-off cookies or is stored under a
\* domain K with K = D or D ending with "." + K; names stored only under a
\* sibling, a child or an unrelated domain are not sent.
C5_OnlyMatchingDomains ==
    pc = "inflight" =>
        LET pairs == CarriedPairs(sent)
            D     == call.domain
        IN \A i \in 1..Len(pairs) :
              \/ DictHas(call.cookies, pairs[i][1])
              \/ \E k \in 1..Len(cookies) :
                    /\ IsParentOrSelf(cookies[k][1], D)
                    /\ DictHas(cookies[k][2], pairs[i][1])

\* C5 witness: a request to api.ex.com while init is stored under the sibling
\* shop.ex.com only and sid under the parent ex.com: the header carries sid,
\* not init
C5_Witness ==
    /\ pc = "inflight"
    /\ call.domain = D_api
    /\ call.cookies = <<>>
    /\ Lookup(cookies, D_shop, N_init) = <<V_hello>>
    /\ Lookup(cookies, D_parent, N_sid) = <<V_abc123>>
    /\ CarriedPairs(sent) = << <<N_sid, V_abc123>> >>

\* C7: a Set-Cookie value with a name=value first segment and a Domain
\* attribute that declares a domain is stored, name -> value, under the
\* declared domain (trimmed, lower-cased, one leading dot removed) and not
\* under the request domain.
C7_StoredUnderDeclaredDomain ==
    Answered =>
        LET rs == Readings
            rd == call.domain
        IN \A i \in 1..Len(rs) :
              (rs[i].ok /\ rs[i].declared # <<>>) =>
                  /\ LastWriter(rs, i) =>
                        Lookup(cookies, rs[i].declared, rs[i].name) = <<rs[i].value>>
                  /\ (rs[i].declared # rd /\ ~Writes(rs, rd, rs[i].name)) =>
                        Lookup(cookies, rd, rs[i].name) = Lookup(before, rd, rs[i].name)

\* C7 witness: "sid=abc123; Domain=.ex.com; Path=/; HttpOnly" answered to a
\* request for shop.ex.com: sid=abc123 is under ex.com, nothing under
\* shop.ex.com
C7_Witness ==
    /\ pc = "idle"
    /\ call.domain = D_shop
    /\ resp = << <<H_Set_Cookie, <<SC_sid>>>> >>
    /\ Lookup(cookies, D_parent, N_sid) = <<V_abc123>>
    /\ ~DictHas(cookies, D_shop)

\* C8: a Set-Cookie value that declares no domain (no Domain attribute, or
\* one that is empty once trimmed and without its leading dot) is stored
\* under the request domain, and under no other domain, so under no parent.
C8_StoredUnderRequestDomain ==
    Answered =>
        LET rs == Readings
            rd == call.domain
        IN \A i \in 1..Len(rs) :
              (rs[i].ok /\ rs[i].declared = <<>>) =>
                  /\ LastWriter(rs, i) =>
                        Lookup(cookies, rd, rs[i].name) = <<rs[i].value>>
                  /\ \A k \in 1..Len(cookies) :
                        (cookies[k][1] # rd /\ ~Writes(rs, cookies[k][1], rs[i].name)) =>
                            Lookup(cookies, cookies[k][1], rs[i].name)
                                = Lookup(before, cookies[k][1], rs[i].name)

\* C8 witness: "tok=zzz; Path=/" answered to a request for api.ex.com while
\* the parent ex.com is in the store: tok is under api.ex.com, not under ex.com
C8_Witness ==
    /\ pc = "idle"
    /\ call.domain = D_api
    /\ resp = << <<H_set_cookie, <<SC_tok>>>> >>
    /\ Lookup(cookies, D_api, N_tok) = <<V_zzz>>
    /\ DictHas(cookies, D_parent)
    /\ Lookup(cookies, D_parent, N_tok) = <<>>

\* C9: a Set-Cookie value whose first segment holds no "=" raises nothing
\* and writes nothing: a response of such values only leaves the store as it
\* was, and in a mixed response every stored change comes from a well-formed
\* value, each of which is ingested.
C9_MalformedSkipped ==
    Answered =>
        LET rs   == Readings
            good == {i \in 1..Len(rs) : rs[i].ok}
        IN (good # 1..Len(rs)) =>
              /\ err = NoError
              /\ (good = {}) => (cookies = before)
              /\ Entries(cookies) \subseteq
                    Entries(before) \cup {<<rs[i].key, rs[i].name, rs[i].value>> : i \in good}
              /\ \A i \in good :
                    LastWriter(rs, i) =>
                        Lookup(cookies, rs[i].key, rs[i].name) = <<rs[i].value>>

\* C9 witness: "garbage-no-equals" and "garbage; Domain=ex.com" answered to a
\* request that passed init=hello: the store holds that cookie and nothing else
C9_Witness ==
    /\ pc = "idle"
    /\ err = NoError
    /\ resp = << <<H_Server, <<V_nginx>>>>, <<H_Set_Cookie, <<SC_garbage, SC_late_eq>>>> >>
    /\ call.cookies = << <<N_init, V_hello>> >>
    /\ before = << <<D_shop, << <<N_init, V_hello>> >> >> >>
    /\ cookies = before

\* some domain that applies to D and follows D in the store holds name n
ShadowedByLaterDomain(store, D, n) ==
    \E i, k \in 1..Len(store) :
        /\ store[i][1] = D
        /\ k > i
        /\ IsParentOrSelf(store[k][1], D)
        /\ DictHas(store[k][2], n)

-----------------------------------------------------------------------------
(* Properties of consecutive requests to one URL *)

\* the host of a URL authority: the text after the last "@" and before the
\* first ":" that follows
Host(authority) ==
    LET ats   == {i \in 1..Len(authority) : authority[i] = "@"}
        from  == IF ats = {} THEN 1
                 ELSE (CHOOSE i \in ats : \A j \in ats : j <= i) + 1
        rest  == SubSeq(authority, from, Len(authority))
        colon == {i \in 1..Len(rest) : rest[i] = ":"}
    IN IF colon = {} THEN rest
       ELSE SubSeq(rest, 1, (CHOOSE i \in colon : \A j \in colon : i <= j) - 1)

\* reading i is the only one of the list that sets its name
OnlySetter(rs, i) ==
    \A j \in 1..Len(rs) : (j # i /\ rs[j].ok) => rs[j].name # rs[i].name

\* C11: when the response to a request for URL U (the inputs have one URL
\* per authority, so U is known by its authority, port included) sets n=v
\* with no Domain attribute, or with one equal to U's host or a parent of it,
\* the next request to U that passes no one-off cookie n carries n=v.
C11_ResponseCookieCarried ==
    (pc = "inflight" /\ prev.resp # <<>> /\ prev.domain = call.domain) =>
        LET rs    == ReadingsOf(prev.resp, prev.domain)
            pairs == CarriedPairs(sent)
            host  == Host(call.domain)
        IN \A i \in 1..Len(rs) :
              ( /\ rs[i].ok
                /\ OnlySetter(rs, i)
                /\ rs[i].declared = <<>> \/ IsParentOrSelf(rs[i].declared, host)
                /\ ~DictHas(call.cookies, rs[i].name) ) =>
                  \E k \in 1..Len(pairs) : pairs[k] = <<rs[i].name, rs[i].value>>

-----------------------------------------------------------------------------
(* Properties of the store's keys *)

\* C12: in every state of a client every key of the store is lower-case and
\* does not begin with ".".
C12_KeysLowerNoDot ==
    \A k \in 1..Len(cookies) :
        LET key == cookies[k][1] IN
        /\ \A i \in 1..Len(key) : \A j \in DOMAIN UpperAlpha : key[i] # UpperAlpha[j]
        /\ key = <<>> \/ key[1] # "."

-----------------------------------------------------------------------------
(* Properties of the values the cookies property and get_cookies_for_domain *)
(* return                                                                   *)

\* the content of an outer dict object: domain -> name -> value
Deep(h, outer) == [i \in 1..Len(h[outer]) |-> <<h[outer][i][1], h[h[outer][i][2]]>>]

\* C13: the values returned by the cookies property and by
\* get_cookies_for_domain are copies: the store holds what the client's own
\* writes put there, whatever the caller did to a returned value, and a
\* returned value holds what it held when returned plus the caller's own
\* changes, whatever the client stored since.
C13_ReturnedCopies ==
    /\ Deep(heap, StoreRoot) = cookies
    /\ fn.op = "cookies" => Deep(heap, fn.ret) = fn.expect
    /\ fn.op = "get_cookies_for_domain" => heap[fn.ret] = fn.expect

\* C13 witness: sid=1 stored under ex.com, the cookies property read, sid
\* changed to zzz in the returned map, then tok=1 stored under ex.com
C13_Witness ==
    /\ fn.op = "cookies"
    /\ fn.edits = 1
    /\ fn.stale
    /\ fn.expect = << <<D_parent, << <<N_sid, V_zzz>> >> >> >>
    /\ cookies = << <<D_parent, << <<N_sid, V_1>>, <<N_tok, V_1>> >> >> >>

-----------------------------------------------------------------------------
(* Properties of the composer over stores of equal content *)

\* the characters of domains in code-point order
CharOrder ==
    <<"-", ".", "0", "1", "2", "3", "4", "5", "6", "7", "8", "9", ":">> \o LowerAlpha

CodePoint(c) == CHOOSE i \in DOMAIN CharOrder : CharOrder[i] = c

\* a < b as Python compares strings
LexLess(a, b) ==
    \/ Len(a) < Len(b) /\ SubSeq(b, 1, Len(a)) = a
    \/ \E i \in 1..Len(a) :
          /\ i <= Len(b)
          /\ SubSeq(a, 1, i - 1) = SubSeq(b, 1, i - 1)
          /\ CodePoint(a[i]) < CodePoint(b[i])

\* the stores with the items of a store in another order
Reordered(store) ==
    {[i \in 1..Len(store) |-> store[p[i]]] : p \in Permutations(1..Len(store))}

\* the store with its domains in lexical order
SortedByDomain(store) ==
    CHOOSE s \in Reordered(store) :
        \A i \in 1..Len(s) : \A j \in (i + 1)..Len(s) : LexLess(s[i][1], s[j][1])

\* C14: the composed cookie header depends on the content of the store, the
\* one-off cookies and the request domain only: a store of the same content
\* filled in another order of domains gives the same result, which carries
\* the cookies of the matching domains merged in lexical order of domain, the
\* later domain winning a name collision.
C14_OrderIndependent ==
    Composed =>
        /\ \A other \in Reordered(cookies) :
              PrepareHeaders(other, fn.headers, fn.cookies, fn.domain) = fn.ret
        /\ CarriedPairs(fn.ret)
              = ExpectedMerged(SortedByDomain(cookies), fn.cookies, fn.domain)

-----------------------------------------------------------------------------
(* Properties of overlapping requests of AsyncCronetClient *)

Done == {t \in DOMAIN tasks : tasks[t].pc = "done"}
Cancelled == {t \in DOMAIN tasks : tasks[t].pc = "cancelled"}
Settled == \A t \in DOMAIN tasks : tasks[t].pc \in {"done", "failed", "cancelled"}

\* every request was under way before the first response was ingested
AllOverlap ==
    \A t \in DOMAIN tasks : \A u \in Done : tasks[t].started < tasks[u].ended

\* C16: when overlapping requests of one AsyncCronetClient have received
\* their responses, in any order, the store holds every cookie set by every
\* response: each name a response set is stored under its storage domain,
\* with the value of that response unless a response ingested later set the
\* same name for the same domain.
C16_NoLostUpdate ==
    (Settled /\ AllOverlap /\ Cardinality(Done) >= 2) =>
        \A t \in Done :
            LET rs == ReadingsOf(tasks[t].got, tasks[t].domain) IN
            \A i \in 1..Len(rs) :
                rs[i].ok =>
                    /\ Lookup(cookies, rs[i].key, rs[i].name) # <<>>
                    /\ ( /\ LastWriter(rs, i)
                         /\ \A u \in Done :
                               tasks[u].ended > tasks[t].ended =>
                                   ~Writes(ReadingsOf(tasks[u].got, tasks[u].domain),
                                           rs[i].key, rs[i].name) ) =>
                           Lookup(cookies, rs[i].key, rs[i].name) = <<rs[i].value>>

\* C16 witness: two overlapping requests to api.ex.com, answered with
\* "tok=zzz; Path=/" and "init=srv; Domain=": both are under api.ex.com
C16_Witness ==
    /\ Settled
    /\ AllOverlap
    /\ Done = DOMAIN tasks
    /\ \A t \in DOMAIN tasks : tasks[t].domain = D_api
    /\ \E t, u \in DOMAIN tasks :
          /\ tasks[t].got = << <<H_set_cookie, <<SC_tok>>>> >>
          /\ tasks[u].got = << <<H_Set_Cookie, <<SC_empty_dom>>>> >>
    /\ Lookup(cookies, D_api, N_tok) = <<V_zzz>>
    /\ Lookup(cookies, D_api, N_init) # <<>>

\* the store after the store accesses numbered k and up, one after the other:
\* the cookies of a call are stored when it starts, the response of a task of
\* `ingested` when it ends
RECURSIVE Replay(_, _, _)
Replay(k, store, ingested) ==
    IF k > 2 * Cardinality(DOMAIN tasks) THEN store
    ELSE LET starts == {t \in DOMAIN tasks : tasks[t].started = k}
             ends   == {t \in ingested : tasks[t].ended = k}
         IN IF starts # {}
            THEN LET t == CHOOSE t \in starts : TRUE IN
                 Replay(k + 1, StoreOneOff(store, tasks[t].domain, tasks[t].cookies), ingested)
            ELSE IF ends # {}
            THEN LET t == CHOOSE t \in ends : TRUE IN
                 Replay(k + 1,
                        UpdateCookiesFromResponse(store, tasks[t].got, tasks[t].domain),
                        ingested)
            ELSE Replay(k + 1, store, ingested)

\* C18: when requests of an AsyncCronetClient were cancelled while they
\* waited, the store holds, of the response of each cancelled request, all
\* its cookie updates or none of them: it is the store that the calls'
\* cookies and the whole responses of the completed requests, and of some of
\* the cancelled ones, give.
C18_AllOrNothing ==
    Cancelled # {} =>
        \E some \in SUBSET Cancelled : cookies = Replay(1, <<>>, Done \cup some)

\* C18 witness: a request answered with two cookies and cancelled before it
\* left the async with block, while another request was ingested: the store
\* has nothing of the cancelled one
C18_Witness ==
    \E t, u \in DOMAIN tasks :
        /\ tasks[t].pc = "cancelled"
        /\ tasks[t].got = << <<H_Set_Cookie, <<SC_upper>>>>, <<H_set_cookie, <<SC_child>>>> >>
        /\ tasks[u].pc = "done"
        /\ tasks[u].got = << <<H_set_cookie, <<SC_tok>>>> >>
        /\ tasks[u].ended < tasks[t].ended
        /\ ~DictHas(cookies, D_parent)
        /\ Lookup(cookies, tasks[u].domain, N_tok) = <<V_zzz>>

-----------------------------------------------------------------------------
(* Properties of requests issued from several threads *)

\* C17: when the threads that issued overlapping requests on one
\* CronetClient have all returned, the store holds every cookie they wrote:
\* each name of a call's cookies is stored under the request domain and each
\* name a response set is stored under its storage domain.
C17_NoLostUpdate ==
    (\A t \in DOMAIN tasks : tasks[t].pc = "done") =>
        \A t \in DOMAIN tasks :
            /\ \A k \in 1..Len(tasks[t].cookies) :
                  Lookup(cookies, tasks[t].domain, tasks[t].cookies[k][1]) # <<>>
            /\ LET rs == ReadingsOf(tasks[t].got, tasks[t].domain) IN
               \A i \in 1..Len(rs) :
                  rs[i].ok => Lookup(cookies, rs[i].key, rs[i].name) # <<>>

-----------------------------------------------------------------------------
(* Properties of the session's life cycle *)

\* C20: a request issued while the client has no session (none was created,
\* creation failed, or the client was closed) raises RequestError, nothing is
\* dispatched to the transport and the store stays as it was, also when the
\* call passes cookies.
C20_NoSessionRequest ==
    (call.op = "request" /\ session_id = "None") =>
        /\ err.type = "RequestError"
        /\ pc = "idle"
        /\ sent = <<>>
        /\ resp = <<>>
        /\ cookies = before

\* C20 witness: init=hello stored by a request, the client closed, then a
\* request that passes sid=1: RequestError, the store still holds init=hello only
C20_Witness ==
    /\ call.op = "request"
    /\ session_id = "None"
    /\ call.cookies = << <<N_sid, V_1>> >>
    /\ err.type = "RequestError"
    /\ cookies = << <<D_shop, << <<N_init, V_hello>> >> >> >>

\* C19: whenever create-session succeeds the store is empty at that moment,
\* also on a client that was used and closed before; closing the client
\* destroys the stored cookies.
C19_EmptyAtSessionStart ==
    /\ (call.op = "_create_session" /\ err = NoError) => cookies = <<>>
    /\ call.op = "close" => cookies = <<>>


-----------------------------------------------------------------------------
(* Properties of the remote calls of session creation and close *)

\* C21: every failure of a remote call, of create-session and of
\* send-request, whether the transport raised, the reply was undecodable or
\* the reply said success:false, reaches the caller as RequestError: no call
\* ends with an exception of another type.
C21_SingleErrorKind ==
    err.type \in {"none", "RequestError"}

\* C22: close() returns normally whether delete-session succeeds or raises,
\* and the client has no session afterwards.
C22_CloseSwallows ==
    call.op = "close" => (err = NoError /\ session_id = "None")

\* C22 witness: a close whose delete-session raised
C22_Witness ==
    /\ call.op = "close"
    /\ call.remote = "delete-session"
    /\ call.answer = "raised"
    /\ session_id = "None"

\* C23: the client starts without a session; a create-session answered with
\* success false raises RequestError and leaves session_id as it was (None
\* stays None); session_id is set after a step exactly when the step is a
\* successful create-session, or a session existed and the step is no close;
\* a request begun without a session is refused with RequestError.
C23_SessionLifeCycle ==
    /\ session_id = "None"
    /\ [][ /\ (call'.op = "_create_session" /\ call'.answer = "rejected") =>
                (err'.type = "RequestError" /\ session_id' = session_id)
           /\ (session_id' # "None") <=>
                \/ call'.op = "_create_session" /\ call'.answer = "success"
                \/ session_id # "None" /\ call'.op # "close"
           /\ (session_id = "None" /\ call'.op = "request") =>
                (err'.type = "RequestError" /\ pc' = "idle" /\ sent' = <<>>)
         ]_vars

\* C23 witness: a rejected create-session on a client without a session
C23_Witness ==
    /\ call.op = "_create_session"
    /\ call.answer = "rejected"
    /\ err.type = "RequestError"
    /\ session_id = "None"

\* C30: delete-session is issued by close() only, exactly when the client has
\* a session, and close() leaves the client without one: one delete-session
\* per established session, none from a second close() or from a close() on
\* a client that never had a session.
C30_CloseIdempotent ==
    [][ /\ call'.remote = "delete-session" => call'.op = "close"
        /\ call'.op = "close" =>
            /\ (call'.remote = "delete-session") <=> (session_id # "None")
            /\ session_id' = "None"
      ]_vars

\* C30 witness: a close() on a client that had a session and stored a
\* cookie, was closed, and is closed again: nothing is issued
C30_Witness ==
    /\ call.op = "close"
    /\ call.remote = "none"
    /\ session_id = "None"
    /\ cookies # <<>>


-----------------------------------------------------------------------------
(* Frame properties of the store writes *)

\* the domains of a store
Domains(store) == {store[i][1] : i \in 1..Len(store)}

\* a store without the names ns under domain K, and without K when nothing
\* else is stored under it
Without(store, K, ns) ==
    LET cut == [i \in 1..Len(store) |->
                  IF store[i][1] = K
                  THEN <<K, SelectSeq(store[i][2], LAMBDA p : p[1] \notin ns)>>
                  ELSE store[i]]
    IN SelectSeq(cut, LAMBDA e : e[1] # K \/ e[2] # <<>>)

\* stores a and b hold the same domains and entries, in the same order, but
\* for the names ns under domain K
LocalChange(a, b, K, ns) == Without(a, K, ns) = Without(b, K, ns)

\* the stores a response goes through: the store it finds, then the store
\* after each of its Set-Cookie values
RECURSIVE Stages(_, _, _)
Stages(store, vs, rd) ==
    IF vs = <<>> THEN <<store>>
    ELSE <<store>> \o Stages(StoreParsed(store, ParseOne(Head(vs)), rd), Tail(vs), rd)

\* C24: store writes are local. Storing the one-off cookies of a request for
\* domain D changes only entries (D, n) with n one of the one-off names, and
\* adds no domain but D; ingesting one Set-Cookie value changes only the
\* entry (storage domain, name) of that value and adds no domain but its
\* storage domain, and a value that is not ingested changes nothing; no
\* write removes a domain.
C24_LocalWrites ==
    /\ pc = "inflight" =>
        IF call.cookies = <<>> THEN cookies = before
        ELSE LocalChange(before, cookies, call.domain,
                         {call.cookies[i][1] : i \in 1..Len(call.cookies)})
    /\ Answered =>
        LET rd == call.domain
            vs == SetCookieValues(resp)
            rs == Readings
            S  == Stages(before, vs, rd)
        IN /\ S[Len(vs) + 1] = cookies
           /\ \A k \in 1..Len(vs) :
                IF rs[k].ok
                THEN LocalChange(S[k], S[k + 1], rs[k].key, {rs[k].name})
                ELSE S[k + 1] = S[k]

\* C24 witness: sid=1 passed to a request for shop.ex.com while init=hello is
\* stored there: only sid is written, init stays
C24_Witness ==
    /\ pc = "inflight"
    /\ call.domain = D_shop
    /\ call.cookies = << <<N_sid, V_1>> >>
    /\ Lookup(before, D_shop, N_init) = <<V_hello>>
    /\ Lookup(before, D_shop, N_sid) = <<>>
    /\ Lookup(cookies, D_shop, N_init) = <<V_hello>>
    /\ Lookup(cookies, D_shop, N_sid) = <<V_1>>

\* C27: when a request fails because the transport raised, the reply was
\* undecodable or the remote said success:false, nothing is ingested: the
\* store is the store before the call with the call's one-off cookies
\* written over it under the request domain, and nothing else.
C27_FailedKeepsOneOff ==
    (call.op = "request" /\ pc = "idle" /\ call.remote = "send-request"
       /\ err.type = "RequestError") =>
        LET D     == call.domain
            given == {<<D, call.cookies[i][1], call.cookies[i][2]>> :
                        i \in 1..Len(call.cookies)}
            kept  == {t \in Entries(before) :
                        ~(t[1] = D /\ DictHas(call.cookies, t[2]))}
        IN /\ Entries(cookies) = kept \cup given
           /\ Domains(cookies) = Domains(before) \cup {t[1] : t \in given}
           /\ resp = <<>>

\* C27 witness: init=hello passed to a request for shop.ex.com on an empty
\* store, the remote says success:false: the store holds init=hello
C27_Witness ==
    /\ call.op = "request"
    /\ pc = "idle"
    /\ err = [type |-> "RequestError", why |-> "rejected"]
    /\ call.cookies = << <<N_init, V_hello>> >>
    /\ before = <<>>
    /\ cookies = << <<D_shop, << <<N_init, V_hello>> >> >> >>

\* every domain of store a and every name under it is in store b
Kept(a, b) ==
    \A i \in 1..Len(a) :
        /\ DictHas(b, a[i][1])
        /\ \A k \in 1..Len(a[i][2]) : DictHas(DictGet(b, a[i][1]), a[i][2][k][1])

\* C29: the store only grows: no step of a client (request, response
\* ingestion, failure, create-session, close) removes a stored domain or a
\* stored cookie name; a stored (domain, name) can only get another value.
C29_StoreOnlyGrows ==
    [][cookies' # cookies => Kept(cookies, cookies')]_vars

\* C29 witness: sid=1 stored under shop.ex.com is overwritten by a response
\* that sets sid=deep for shop.ex.com: the entry is still there, with the new
\* value, next to the one the response stored under ex.com
C29_Witness ==
    /\ pc = "idle"
    /\ call.op = "request"
    /\ Lookup(before, D_shop, N_sid) = <<V_1>>
    /\ Lookup(cookies, D_shop, N_sid) = <<<<"d","e","e","p">>>>
    /\ Lookup(cookies, D_parent, N_sid) = <<<<"u","p">>>>


-----------------------------------------------------------------------------
(* Properties of _parse_set_cookie, stated on its argument and result *)

\* the text of a raw value up to its first ";", all of it when it has none
UpToSemicolon(v) ==
    IF \E i \in 1..Len(v) : v[i] = ";"
    THEN SubSeq(v, 1, (CHOOSE i \in 1..Len(v) :
                          v[i] = ";" /\ \A j \in 1..(i - 1) : v[j] # ";") - 1)
    ELSE v

\* the position of the first "=" of a text that has one
FirstEq(t) == CHOOSE i \in 1..Len(t) : t[i] = "=" /\ \A j \in 1..(i - 1) : t[j] # "="

\* C26: only the first "=" of the first segment is a delimiter: when the
\* text before the first ";" holds an "=", the value yields one cookie whose
\* name is the text before that segment's first "=", trimmed, and whose value
\* is all the text of the segment after it, trimmed, later "=" included;
\* nothing after the first ";" is part of the value.
C26_FirstEqualsOnly ==
    fn.op = "_parse_set_cookie" =>
        LET seg == UpToSemicolon(fn.set_cookie_values[1]) IN
        (\E i \in 1..Len(seg) : seg[i] = "=") =>
            /\ Len(fn.ret) = 1
            /\ fn.ret[1][1] = Strip(SubSeq(seg, 1, FirstEq(seg) - 1))
            /\ fn.ret[1][2] = Strip(SubSeq(seg, FirstEq(seg) + 1, Len(seg)))
            /\ \A i \in 1..Len(fn.ret[1][2]) : fn.ret[1][2][i] # ";"

\* C26 witness: "n =n=n;" gives the name "n" and the value "n=n"
C26_Witness ==
    /\ fn.op = "_parse_set_cookie"
    /\ fn.set_cookie_values = << <<"n"," ","=","n","=","n",";">> >>
    /\ fn.ret = << << <<"n">>, <<"n","=","n">>, <<>> >> >>


-----------------------------------------------------------------------------
(* Purity of the header composer, stated on the objects *)

\* C25: a call of _prepare_headers leaves the store as it was (the store
\* holds what the client's own writes put there) and leaves the caller's
\* header list and one-off cookie dict as they were passed; what it returns
\* is the composition of these.
C25_ComposerPure ==
    fn.op = "_prepare_headers" =>
        /\ Deep(heap, StoreRoot) = cookies
        /\ heap[fn.headers] = fn.expect.headers
        /\ fn.cookies # 0 => heap[fn.cookies] = fn.expect.cookies
        /\ ~fn.stale =>
              heap[fn.ret] = PrepareHeaders(cookies, fn.expect.headers, fn.expect.cookies,
                                            fn.domain)

\* C25 witness: sid=1 stored under ex.com and under shop.ex.com, then
\* _prepare_headers called for shop.ex.com with three headers and sid=zzz:
\* the header sid=zzz is composed, the store and the arguments are as before
C25_Witness ==
    /\ fn.op = "_prepare_headers"
    /\ fn.domain = D_shop
    /\ cookies = << <<D_parent, << <<N_sid, V_1>> >> >>, <<D_shop, << <<N_sid, V_1>> >> >> >>
    /\ heap[fn.headers] = <<HP_Cookie, HP_Priority, HP_Accept>>
    /\ fn.cookies # 0
    /\ heap[fn.cookies] = << <<N_sid, V_zzz>> >>
    /\ heap[fn.ret] = <<HP_Accept, <<STR_cookie, N_sid \o <<"=">> \o V_zzz>>, HP_Priority>>

-----------------------------------------------------------------------------
(* Properties of the headers of overlapping requests of AsyncCronetClient *)

\* the store after the store accesses numbered k to n, one after the other
RECURSIVE StoreAsOf(_, _, _)
StoreAsOf(k, n, store) ==
    IF k > n THEN store
    ELSE LET starts == {t \in DOMAIN tasks : tasks[t].started = k}
             ends   == {t \in Done : tasks[t].ended = k}
         IN IF starts # {}
            THEN LET t == CHOOSE t \in starts : TRUE IN
                 StoreAsOf(k + 1, n, StoreOneOff(store, tasks[t].domain, tasks[t].cookies))
            ELSE IF ends # {}
            THEN LET t == CHOOSE t \in ends : TRUE IN
                 StoreAsOf(k + 1, n,
                           UpdateCookiesFromResponse(store, tasks[t].got, tasks[t].domain))
            ELSE StoreAsOf(k + 1, n, store)

\* no response had been ingested when request t started
StartedTogether(t) == \A u \in Done : tasks[t].started < tasks[u].ended

\* C28: the headers an AsyncCronetClient request sends are composed from the
\* store as it is when the request starts running, its own cookies stored:
\* whatever is ingested while it waits does not change them.  So a request
\* that started before any response was ingested carries only cookies that
\* were passed to it or to a request started before it, none set by the
\* response of another request.
C28_ComposedAtStart ==
    \A t \in DOMAIN tasks :
        tasks[t].started > 0 =>
            /\ tasks[t].sent = PrepareHeaders(StoreAsOf(1, tasks[t].started, <<>>), <<>>,
                                              tasks[t].cookies, tasks[t].domain)
            /\ StartedTogether(t) =>
                  LET carried == CarriedPairs(tasks[t].sent) IN
                  \A i \in 1..Len(carried) :
                      \E u \in DOMAIN tasks :
                          /\ tasks[u].started > 0
                          /\ tasks[u].started <= tasks[t].started
                          /\ \E k \in 1..Len(tasks[u].cookies) :
                                 tasks[u].cookies[k] = carried[i]

\* C28 witness: two overlapping requests to shop.ex.com with init=hello; one
\* was answered with "tok=zzz; Path=/" and ingested, the store has tok, and
\* the headers of the other carry init=hello alone
C28_Witness ==
    \E t, u \in DOMAIN tasks :
        /\ t # u
        /\ tasks[u].pc = "done"
        /\ tasks[u].got = << <<H_set_cookie, <<SC_tok>>>> >>
        /\ tasks[t].pc \in {"post", "json", "exit", "done"}
        /\ tasks[t].started < tasks[u].ended
        /\ tasks[t].domain = tasks[u].domain
        /\ Lookup(cookies, tasks[t].domain, N_tok) = <<V_zzz>>
        /\ tasks[t].sent = << <<STR_cookie, N_init \o <<"=">> \o V_hello>> >>

====
